---- MODULE Spec2Model ----
(***************************************************************************)
(* Timeline construction of DayflowGemma: the chunk loops of               *)
(* process_with_merging (activity_card_merger.py) and                      *)
(* process_observations_in_chunks (process_dummy_observations.py), the two *)
(* card generators, the merge decision and the fusion of two cards; and    *)
(* the segment merger of process_videos.py (_merge_frame_descriptions).    *)
(*                                                                         *)
(* Texts are TLA+ strings; a JSON value is a record [ty, s] (ty is "str",  *)
(* "bool" or "null"); a response text is a sequence of tokens: "{", "}",   *)
(* "[", "]", a prose token, a scalar token, or the name of a member list   *)
(* (the text between the braces of an object).                             *)
(***************************************************************************)
EXTENDS Integers, Sequences, FiniteSets, TLC

VARIABLES
    mode,                 \* which script runs: "merging" or "chunks"
    pc,                   \* position in the script
    all_observations,     \* the observation list (the loaded JSON)
    end_time,             \* all_observations[-1]['end_ts']
    chunk_start,          \* the cursor
    chunk_observations,   \* the observations selected for the current chunk
    context_observations, \* chunks script: the context observations of the chunk
    context_cards,        \* chunks script: the context cards of the chunk
    cards,                \* the list the generator returned for the chunk
    new_card,             \* cards[0], as <<card>>, or <<>>
    previous_card,        \* <<card>>, or <<>> for None
    final_cards,          \* merging script: the timeline
    all_cards,            \* chunks script: the emitted cards
    decision,             \* the value should_merge_cards returned
    merged_card,          \* the card merge_two_cards returned, as <<card>>
    response,             \* the outcome of the latest inference call
    calls,                \* inference calls issued in the current iteration
    visited,              \* the loop iterations so far: cursor and selections
    merge_yes,            \* stdout: the number of "Merge decision: True" lines
    chain,                \* the card last committed unfused and the fusions since
    frame_descriptions,   \* segment merger: the (offset, caption) pairs
    batch_start_time,     \* segment merger: batch_start_time.timestamp()
    video_duration,       \* segment merger: the duration of the batch
    video_observations,   \* segment merger: the list returned, as <<list>>
    llm_calls,            \* VideoProcessor.llm_calls
    parse_type,           \* parser: the expected_type argument
    parse_result,         \* parser: the outcome, as <<outcome>>
    video_paths,          \* pipeline: the paths read from the list file
    video_index,          \* pipeline: the position in video_paths
    cached_obs_file,      \* pipeline: cached_observations.json of each path
    llm_calls_file,       \* pipeline: the llm_calls.json written last
    stages,               \* pipeline: the stages run for the current video
    formatted,            \* the text _format_duration returned, as <<text>>
    reparsed              \* the outcome of _parse_timestamp on it, as <<outcome>>

\* the variables of the chunk scripts
scriptVars == <<mode, pc, all_observations, end_time, chunk_start, chunk_observations,
                context_observations, context_cards, cards, new_card, previous_card,
                final_cards, all_cards, decision, merged_card, calls, visited,
                merge_yes, chain>>

\* the variables of the parser and of the video pipeline
pipelineVars == <<parse_type, parse_result, video_paths, video_index, cached_obs_file,
                  llm_calls_file, stages, formatted, reparsed>>

\* the variables of the video processor
videoVars == <<frame_descriptions, batch_start_time, video_duration, video_observations,
               llm_calls, pipelineVars>>

vars == <<scriptVars, response, videoVars>>

----------------------------------------------------------------------------
(* Bounds of the model *)

\* longest observation list loaded
MaxObs == 2
\* observation bounds are BaseTs + k * TickLen, k in 0..MaxTick
MaxTick == 3

(* Program constants *)

chunk_duration == 15 * 60
context_duration == 30 * 60

\* the grid of instants: half a chunk apart, so that observation bounds fall
\* on and between window bounds; it starts at 11:45 AM and crosses noon
TickLen == chunk_duration \div 2
BaseTs == 47 * chunk_duration

----------------------------------------------------------------------------
(* Python strings *)

UpperChars == "ABCDEFGHIJKLMNOPQRSTUVWXYZ"
LowerChars == "abcdefghijklmnopqrstuvwxyz"

CharAt(s, i) == SubSeq(s, i, i)

UpperSet == {CharAt(UpperChars, i) : i \in 1..Len(UpperChars)}

\* the lowercase letter of each uppercase letter
LowerMap ==
    [c \in UpperSet |->
        CharAt(LowerChars, CHOOSE i \in 1..Len(UpperChars) : CharAt(UpperChars, i) = c)]

LowerChar(c) == IF c \in UpperSet THEN LowerMap[c] ELSE c

RECURSIVE LowerRange(_, _, _)
\* the characters of s at positions i..j, in lowercase (by halves)
LowerRange(s, i, j) ==
    IF i > j THEN ""
    ELSE IF i = j THEN LowerChar(CharAt(s, i))
    ELSE LowerRange(s, i, (i + j) \div 2) \o LowerRange(s, (i + j) \div 2 + 1, j)

\* str.lower()
lower(s) == LowerRange(s, 1, Len(s))

\* keyword in text
Contains(text, keyword) ==
    \E i \in 1..(Len(text) - Len(keyword) + 1) :
        SubSeq(text, i, i + Len(keyword) - 1) = keyword

Digits == "0123456789"

Digit(d) == CharAt(Digits, d + 1)
DigitSet == {Digit(d) : d \in 0..9}
DigitVal(c) == CHOOSE d \in 0..9 : Digit(d) = c

\* an hour 1..12 without padding (%-I)
HourStr(h) == IF h < 10 THEN Digit(h) ELSE Digit(h \div 10) \o Digit(h % 10)

\* datetime.fromtimestamp(ts).strftime("%-I:%M %p"), local time taken as UTC
FormatTime(ts) ==
    LET minuteOfDay == (ts \div 60) % 1440
        h24 == minuteOfDay \div 60
        mi  == minuteOfDay % 60
        h12 == IF h24 % 12 = 0 THEN 12 ELSE h24 % 12
    IN  HourStr(h12) \o ":" \o Digit(mi \div 10) \o Digit(mi % 10) \o " "
            \o (IF h24 < 12 THEN "AM" ELSE "PM")

----------------------------------------------------------------------------
(* JSON values *)

Str(s) == [ty |-> "str", s |-> s]
JTrue == [ty |-> "bool", s |-> "true"]
JFalse == [ty |-> "bool", s |-> "false"]
JNull == [ty |-> "null", s |-> ""]

IsStr(v) == v.ty = "str"

\* Python truth value of a JSON value
Truthy(v) ==
    \/ v.ty = "bool" /\ v.s = "true"
    \/ v.ty = "str" /\ v.s # ""

\* dict.get(key, default)
Get(d, key, default) == IF key \in DOMAIN d THEN d[key] ELSE default

EmptyDict == <<>>

\* the member lists a response may hold between braces
Members(tok) ==
    CASE tok = "m_code" ->
            [title |-> Str("Code"), summary |-> Str("Fix"), combine |-> JTrue,
             reason |-> Str("same task")]
      [] tok = "m_no" ->
            [title |-> Str("Code"), summary |-> Str("Fix"), combine |-> JFalse,
             reason |-> Str("different")]
      [] tok = "m_split" ->
            [title |-> Str("You"), summary |-> Str("Tube"), combine |-> JTrue]
      [] tok = "m_odd" ->
            [title |-> JNull, summary |-> Str("Fix"), combine |-> Str("no")]
      [] tok = "m_card" ->
            [startTime |-> Str("9:00 AM"), endTime |-> Str("9:15 AM"),
             category |-> Str("Work"), title |-> Str("Code"), summary |-> Str("Fix")]
      [] tok = "m_fun" ->
            [startTime |-> Str("1:00 PM"), endTime |-> Str("1:30 PM"),
             category |-> Str("Fun"), title |-> Str("Play"), summary |-> Str("Game")]
      [] tok = "m_part" ->
            [startTime |-> Str("9:00 AM"), title |-> Str("Code")]
      [] tok = "m_blank" ->
            [startTime |-> Str(""), endTime |-> Str("9:15 AM"),
             category |-> Str("Work"), title |-> Str("Code"), summary |-> Str("Fix")]
      [] tok = "s_head" ->
            [startTimestamp |-> Str("00:00"), endTimestamp |-> Str("00:01"),
             description |-> Str("edit")]
      [] tok = "s_tail" ->
            [startTimestamp |-> Str("00:01"), endTimestamp |-> Str("00:02"),
             description |-> Str("read")]
      [] tok = "s_same" ->
            [startTimestamp |-> Str("00:01"), endTimestamp |-> Str("00:01"),
             description |-> Str("read")]
      [] tok = "s_back" ->
            [startTimestamp |-> Str("00:02"), endTimestamp |-> Str("00:01"),
             description |-> Str("read")]
      [] tok = "s_long" ->
            [startTimestamp |-> Str("00:00:00"), endTimestamp |-> Str("00:00:02"),
             description |-> Str("edit")]
      [] tok = "s_first" ->
            [startTimestamp |-> Str("00:00"), endTimestamp |-> Str("00:30"),
             description |-> Str("edit")]
      [] tok = "s_rest" ->
            [startTimestamp |-> Str("00:30"), endTimestamp |-> Str("00:32"),
             description |-> Str("read")]
      [] tok = "s_bad" ->
            [startTimestamp |-> Str("00:0x"), endTimestamp |-> Str("00:02"),
             description |-> Str("read")]
      [] tok = "s_abc" ->
            [startTimestamp |-> Str("abc"), endTimestamp |-> Str("00:02"),
             description |-> Str("read")]
      [] tok = "s_nokey" ->
            [startTimestamp |-> Str("00:00"), description |-> Str("edit")]
      [] tok = "s_null" ->
            [startTimestamp |-> JNull, endTimestamp |-> Str("00:02"),
             description |-> Str("read")]

MemberTokens == {"m_code", "m_no", "m_split", "m_odd", "m_card", "m_fun", "m_part",
                 "m_blank", "s_head", "s_tail", "s_same", "s_back", "s_long", "s_bad",
                 "s_nokey", "s_null", "s_first", "s_rest", "s_abc"}
ScalarTokens == {"true", "7"}

\* what json.loads returns: a dict, a list of elements, or a scalar
NoJson == [ok |-> FALSE, kind |-> "none", d |-> EmptyDict, l |-> <<>>]
JsonDict(d) == [ok |-> TRUE, kind |-> "dict", d |-> d, l |-> <<>>]
JsonList(l) == [ok |-> TRUE, kind |-> "list", d |-> EmptyDict, l |-> l]
JsonScalar == [ok |-> TRUE, kind |-> "scalar", d |-> EmptyDict, l |-> <<>>]

\* an element of a JSON list: an object or a scalar
ElemDict(d) == [isdict |-> TRUE, d |-> d]
ElemScalar == [isdict |-> FALSE, d |-> EmptyDict]
NoElems == [ok |-> FALSE, l |-> <<>>]

RECURSIVE LoadElems(_)
\* the elements of a JSON array, from the tokens between its brackets
LoadElems(toks) ==
    IF Len(toks) = 0 THEN [ok |-> TRUE, l |-> <<>>]
    ELSE IF toks[1] \in ScalarTokens THEN
        LET rest == LoadElems(Tail(toks))
        IN  IF rest.ok THEN [ok |-> TRUE, l |-> <<ElemScalar>> \o rest.l] ELSE NoElems
    ELSE IF Len(toks) >= 2 /\ toks[1] = "{" /\ toks[2] = "}" THEN
        LET rest == LoadElems(SubSeq(toks, 3, Len(toks)))
        IN  IF rest.ok THEN [ok |-> TRUE, l |-> <<ElemDict(EmptyDict)>> \o rest.l]
            ELSE NoElems
    ELSE IF Len(toks) >= 3 /\ toks[1] = "{" /\ toks[2] \in MemberTokens /\ toks[3] = "}" THEN
        LET rest == LoadElems(SubSeq(toks, 4, Len(toks)))
        IN  IF rest.ok THEN [ok |-> TRUE, l |-> <<ElemDict(Members(toks[2]))>> \o rest.l]
            ELSE NoElems
    ELSE NoElems

\* json.loads on a token sequence (JSONDecodeError is ok = FALSE)
JsonLoads(toks) ==
    IF Len(toks) = 1 /\ toks[1] \in ScalarTokens THEN JsonScalar
    ELSE IF toks = <<"{", "}">> THEN JsonDict(EmptyDict)
    ELSE IF Len(toks) = 3 /\ toks[1] = "{" /\ toks[2] \in MemberTokens /\ toks[3] = "}"
        THEN JsonDict(Members(toks[2]))
    ELSE IF Len(toks) >= 2 /\ toks[1] = "[" /\ toks[Len(toks)] = "]" THEN
        LET inner == LoadElems(SubSeq(toks, 2, Len(toks) - 1))
        IN  IF inner.ok THEN JsonList(inner.l) ELSE NoJson
    ELSE NoJson

\* str.find(ch): the first position of ch, 0 when absent (Python: -1)
Find(toks, ch) ==
    IF \E i \in 1..Len(toks) : toks[i] = ch
    THEN CHOOSE i \in 1..Len(toks) : toks[i] = ch /\ \A j \in 1..(i - 1) : toks[j] # ch
    ELSE 0

\* str.rfind(ch): the last position of ch, 0 when absent (Python: -1)
RFind(toks, ch) ==
    IF \E i \in 1..Len(toks) : toks[i] = ch
    THEN CHOOSE i \in 1..Len(toks) : toks[i] = ch /\ \A j \in (i + 1)..Len(toks) : toks[j] # ch
    ELSE 0

\* the result of _parse_json_from_response: raised, or the value returned
ParseRaised == [raised |-> TRUE, kind |-> "none", d |-> EmptyDict, l |-> <<>>]
ParseValue(j) == [raised |-> FALSE, kind |-> j.kind, d |-> j.d, l |-> j.l]

\* ParseObjectSearch returning the object itself whatever is expected
ParseObjectSearchUnwrapped(text, expected_type) ==
    LET start_idx == Find(text, "{")
        end_idx == RFind(text, "}")
        data == JsonLoads(SubSeq(text, start_idx, end_idx))
    IN  IF start_idx # 0 /\ end_idx # 0 /\ data.ok
        THEN ParseValue(data)
        ELSE ParseRaised

\* the object search of _parse_json_from_response (lines 660-673)
ParseObjectSearch(text, expected_type) ==
    LET start_idx == Find(text, "{")
        end_idx == RFind(text, "}")
        data == JsonLoads(SubSeq(text, start_idx, end_idx))
    IN  IF start_idx # 0 /\ end_idx # 0 /\ data.ok
        THEN IF expected_type = "list"
             THEN ParseValue(JsonList(<<ElemDict(data.d)>>))
             ELSE ParseValue(data)
        ELSE ParseRaised

\* the array search of _parse_json_from_response (lines 649-658)
ParseArraySearch(text, expected_type) ==
    LET start_idx == Find(text, "[")
        end_idx == RFind(text, "]")
        data == JsonLoads(SubSeq(text, start_idx, end_idx))
    IN  IF expected_type = "list" /\ start_idx # 0 /\ end_idx # 0 /\ data.ok
        THEN ParseValue(data)
        ELSE ParseObjectSearch(text, expected_type)

_parse_json_from_response(text, expected_type) ==
    LET data == JsonLoads(text)
    IN  IF data.ok
        THEN IF data.kind # expected_type THEN ParseRaised ELSE ParseValue(data)
        ELSE ParseArraySearch(text, expected_type)

----------------------------------------------------------------------------
(* Observations, cards and responses *)

Grid == {BaseTs + k * TickLen : k \in 0..MaxTick}
ObsTexts == {"vscode"}
\* the observations of the input: bounds on the grid, not reversed
ObsSet == {o \in [start_ts : Grid, end_ts : Grid, observation : ObsTexts] :
            o.start_ts <= o.end_ts}

\* the lists a JSON file of observations may hold
Inputs == UNION {[1..n -> ObsSet] : n \in 0..MaxObs}

ActivityCard(start, end, category, title, summary) ==
    [start_time |-> start, end_time |-> end, category |-> category,
     title |-> title, summary |-> summary]

\* the outcome of _call_ollama: a RequestException, or the text returned
TransportError == [fail |-> TRUE, text |-> <<>>]
Text(toks) == [fail |-> FALSE, text |-> toks]
NoResponse == [fail |-> FALSE, text |-> <<"none">>]

Responses ==
    { TransportError,
      Text(<<"p">>),
      Text(<<"{", "}">>),
      Text(<<"{", "m_code", "}">>),
      Text(<<"{", "m_no", "}">>),
      Text(<<"{", "m_split", "}">>),
      Text(<<"{", "m_odd", "}">>),
      Text(<<"p", "{", "m_code", "}", "p">>),
      Text(<<"[", "]">>),
      Text(<<"[", "{", "m_card", "}", "]">>),
      Text(<<"p", "[", "{", "m_fun", "}", "]">>),
      Text(<<"[", "{", "m_card", "}", "{", "m_fun", "}", "]">>),
      Text(<<"[", "{", "m_part", "}", "]">>),
      Text(<<"[", "{", "m_blank", "}", "]">>) }

\* how an f-string renders a JSON value
PyFormat(v) ==
    IF v.ty = "str" THEN v.s
    ELSE IF v.ty = "null" THEN "None"
    ELSE IF v.s = "true" THEN "True" ELSE "False"

RECURSIVE InsertByStart(_, _)
\* obs placed after every element whose start_ts is not greater (stable)
InsertByStart(sorted, obs) ==
    IF Len(sorted) = 0 THEN <<obs>>
    ELSE IF sorted[Len(sorted)].start_ts <= obs.start_ts THEN Append(sorted, obs)
    ELSE Append(InsertByStart(SubSeq(sorted, 1, Len(sorted) - 1), obs), sorted[Len(sorted)])

RECURSIVE SortByStart(_)
\* list.sort(key=lambda x: x['start_ts'])
SortByStart(obs) ==
    IF Len(obs) = 0 THEN <<>>
    ELSE InsertByStart(SortByStart(SubSeq(obs, 1, Len(obs) - 1)), obs[Len(obs)])

\* ChunkSelect with the window bounds included
ChunkSelectClosed(obs, cs) ==
    SelectSeq(obs, LAMBDA o : o.start_ts <= cs + chunk_duration /\ o.end_ts >= cs)

\* the observations intersecting the window [cs, cs + chunk_duration)
ChunkSelect(obs, cs) ==
    SelectSeq(obs, LAMBDA o : o.start_ts < cs + chunk_duration /\ o.end_ts > cs)

\* the context observations of the window starting at cs
ContextSelect(obs, cs) ==
    SelectSeq(obs, LAMBDA o : o.start_ts >= cs - context_duration /\ o.end_ts <= cs)

\* the context cards: the emitted cards whose start_time is truthy
ContextCards(emitted) == SelectSeq(emitted, LAMBDA c : Truthy(c.start_time))

----------------------------------------------------------------------------
(* Card Generator *)

\* FallbackCard ending at the end of the first observation
FallbackCardFirstEnd(observations) ==
    ActivityCard(Str(FormatTime(observations[1].start_ts)),
                 Str(FormatTime(observations[1].end_ts)),
                 Str("Work"), Str("Activity Session"),
                 Str("User engaged in various activities."))

\* the card both generators fall back to
FallbackCard(observations) ==
    ActivityCard(Str(FormatTime(observations[1].start_ts)),
                 Str(FormatTime(observations[Len(observations)].end_ts)),
                 Str("Work"), Str("Activity Session"),
                 Str("User engaged in various activities."))

\* the card of the plain generator when the response parses
GeneratedCard(observations, result_data) ==
    ActivityCard(Str(FormatTime(observations[1].start_ts)),
                 Str(FormatTime(observations[Len(observations)].end_ts)),
                 Str("Work"),
                 Get(result_data, "title", Str("Activity Session")),
                 Get(result_data, "summary", Str("User engaged in various activities.")))

\* VideoProcessor._generate_activity_cards: the list of cards returned
\* (raised: observations[0] on an empty list raises out of the handler too)
_generate_activity_cards(observations, resp) ==
    LET parsed == _parse_json_from_response(resp.text, "dict")
    IN  IF Len(observations) = 0 THEN [raised |-> TRUE, cards |-> <<>>]
        ELSE IF resp.fail \/ parsed.raised
        THEN [raised |-> FALSE, cards |-> <<FallbackCard(observations)>>]
        ELSE [raised |-> FALSE, cards |-> <<GeneratedCard(observations, parsed.d)>>]

CardKeys == {"startTime", "endTime", "category", "title", "summary"}

\* card_data[...] raises on an element that is no dict or lacks a key
CardDataOk(elem) == elem.isdict /\ CardKeys \subseteq DOMAIN elem.d

CardFromData(elem) ==
    ActivityCard(elem.d["startTime"], elem.d["endTime"], elem.d["category"],
                 elem.d["title"], elem.d["summary"])

\* the cards of the context-aware generator when every element converts
ContextCardsFromData(cards_data) ==
    [i \in 1..Len(cards_data) |-> CardFromData(cards_data[i])]

\* _generate_activity_cards_with_context.modified_generate
modified_generate(observations, resp) ==
    LET parsed == _parse_json_from_response(resp.text, "list")
    IN  IF resp.fail \/ parsed.raised \/ \E i \in 1..Len(parsed.l) : ~CardDataOk(parsed.l[i])
        THEN IF Len(observations) = 0 THEN [raised |-> TRUE, cards |-> <<>>]
             ELSE [raised |-> FALSE, cards |-> <<FallbackCard(observations)>>]
        ELSE [raised |-> FALSE, cards |-> ContextCardsFromData(parsed.l)]

----------------------------------------------------------------------------
(* Card Consolidation Engine *)

distraction_keywords ==
    <<"youtube", "instagram", "twitter", "reddit", "facebook", "cat video",
      "dog video", "social media", "took a break", "watched", "scrolled",
      "distracted">>

\* str + str raises TypeError unless every operand is a str
CanConcat(P, N) == IsStr(P.title) /\ IsStr(P.summary) /\ IsStr(N.title) /\ IsStr(N.summary)

combined_text(P, N) == lower(P.title.s \o P.summary.s \o N.title.s \o N.summary.s)

\* FoundKeyword with the texts compared as written, not in lowercase
FoundKeywordCaseSensitive(P, N) ==
    LET text == P.title.s \o P.summary.s \o N.title.s \o N.summary.s
    IN  \E i \in 1..Len(distraction_keywords) : Contains(text, distraction_keywords[i])

\* the keyword loop of should_merge_cards finds a keyword
FoundKeyword(P, N) ==
    LET text == combined_text(P, N)
    IN  \E i \in 1..Len(distraction_keywords) : Contains(text, distraction_keywords[i])

\* MergeAnswer answering True when the call or the parsing fails
MergeAnswerFailOpen(resp) ==
    LET result == _parse_json_from_response(resp.text, "dict")
    IN  IF resp.fail \/ result.raised THEN JTrue
        ELSE Get(result.d, "combine", JFalse)

\* lines 60-76 of should_merge_cards: the value returned once the call was issued
MergeAnswer(resp) ==
    LET result == _parse_json_from_response(resp.text, "dict")
    IN  IF resp.fail \/ result.raised THEN JFalse
        ELSE Get(result.d, "combine", JFalse)

\* FusedCard with the bounds of the new card
FusedCardNewBounds(P, N, result) ==
    ActivityCard(N.start_time, N.end_time, P.category,
        Get(result, "title", Str(PyFormat(P.title) \o " and " \o PyFormat(N.title))),
        Get(result, "summary", Str(PyFormat(P.summary) \o " " \o PyFormat(N.summary))))

\* the card merge_two_cards builds from a parsed response
FusedCard(P, N, result) ==
    ActivityCard(P.start_time, N.end_time, P.category,
        Get(result, "title", Str(PyFormat(P.title) \o " and " \o PyFormat(N.title))),
        Get(result, "summary", Str(PyFormat(P.summary) \o " " \o PyFormat(N.summary))))

\* FusedFallback with the summaries joined by a blank only
FusedFallbackNoConnective(P, N) ==
    ActivityCard(P.start_time, N.end_time, P.category, P.title,
        Str(PyFormat(P.summary) \o " " \o PyFormat(N.summary)))

\* the card merge_two_cards builds in its except branch
FusedFallback(P, N) ==
    ActivityCard(P.start_time, N.end_time, P.category, P.title,
        Str(PyFormat(P.summary) \o " Continued with " \o PyFormat(N.summary)))

\* ActivityCardMerger.merge_two_cards
merge_two_cards(P, N, resp) ==
    LET result == _parse_json_from_response(resp.text, "dict")
    IN  IF resp.fail \/ result.raised THEN FusedFallback(P, N)
        ELSE FusedCard(P, N, result.d)

\* ReplaceLast appending the fused card after the previous card
ReplaceLastAppends(timeline, previous, merged) == Append(timeline, merged)

\* lines 200-206 of process_with_merging: the timeline after a fusion
ReplaceLast(timeline, previous, merged) ==
    IF Len(timeline) > 0 /\ timeline[Len(timeline)] = previous
    THEN [timeline EXCEPT ![Len(timeline)] = merged]
    ELSE Append(timeline, merged)

\* AppendCard overwriting the last card of a non-empty timeline
AppendCardOverLast(timeline, card) ==
    IF Len(timeline) = 0 THEN <<card>>
    ELSE [timeline EXCEPT ![Len(timeline)] = card]

\* lines 209 and 213 of process_with_merging: the timeline after an append
AppendCard(timeline, card) == Append(timeline, card)

----------------------------------------------------------------------------
(* The scripts *)

\* the parser and the pipeline are not running
PipelineIdle ==
    /\ parse_type = ""
    /\ parse_result = <<>>
    /\ video_paths = <<>>
    /\ video_index = 0
    /\ cached_obs_file = <<>>
    /\ llm_calls_file = <<>>
    /\ stages = <<>>
    /\ formatted = <<>>
    /\ reparsed = <<>>

\* no card committed yet
NoChain == [len |-> 0, start_time |-> JNull, category |-> JNull, end_time |-> JNull, m |-> 0]

\* lines 207-214: a card C0 is committed unfused; the length of the timeline
\* with it, its start and category, and no fusion on it so far
ChainFrom(timeline, card) ==
    [len |-> Len(timeline), start_time |-> card.start_time,
     category |-> card.category, end_time |-> card.end_time, m |-> 0]

\* lines 195-206: one more card was fused onto the card committed last
ChainFused(c, card) == [c EXCEPT !.end_time = card.end_time, !.m = c.m + 1]

Init ==
    /\ mode \in {"merging", "chunks"}
    /\ pc = "start"
    /\ all_observations \in Inputs
    /\ end_time = 0
    /\ chunk_start = 0
    /\ chunk_observations = <<>>
    /\ context_observations = <<>>
    /\ context_cards = <<>>
    /\ cards = <<>>
    /\ new_card = <<>>
    /\ previous_card = <<>>
    /\ final_cards = <<>>
    /\ all_cards = <<>>
    /\ decision = JFalse
    /\ merged_card = <<>>
    /\ response = NoResponse
    /\ calls = 0
    /\ visited = <<>>
    /\ frame_descriptions = <<>>
    /\ batch_start_time = 0
    /\ video_duration = 0
    /\ video_observations = <<>>
    /\ llm_calls = <<>>
    /\ merge_yes = 0
    /\ chain = NoChain
    /\ PipelineIdle

\* one iteration of the while loop: the cursor, the observations selected
\* for the chunk and, in the chunks script, the context observations
Visit(cs, chunk, context) ==
    [chunk_start |-> cs, chunk_observations |-> chunk, context_observations |-> context]

\* NextChunk skipping one window more after a failed inference call
NextChunkOnFailure ==
    /\ chunk_start' = chunk_start + (IF response.fail THEN 2 * chunk_duration
                                                     ELSE chunk_duration)
    /\ pc' = "loop"
    /\ decision' = JFalse
    /\ response' = NoResponse
    /\ calls' = 0

\* the end of one iteration of the while loop: chunk_start = chunk_end
NextChunk ==
    /\ chunk_start' = chunk_start + chunk_duration
    /\ pc' = "loop"
    /\ decision' = JFalse
    /\ response' = NoResponse
    /\ calls' = 0

\* lines 134-152: sort the list, take the time range (IndexError when empty)
MergingLoad ==
    /\ mode = "merging" /\ pc = "start"
    /\ all_observations' = SortByStart(all_observations)
    /\ IF Len(all_observations) = 0
       THEN /\ pc' = "error"
            /\ UNCHANGED <<end_time, chunk_start>>
       ELSE /\ pc' = "loop"
            /\ chunk_start' = all_observations'[1].start_ts
            /\ end_time' = all_observations'[Len(all_observations)].end_ts
    /\ UNCHANGED <<mode, visited, chunk_observations, context_observations, context_cards, cards,
                   new_card, previous_card, final_cards, all_cards, decision,
                   merged_card, response, calls>>
    /\ UNCHANGED <<merge_yes, chain, videoVars>>

\* line 153: the loop condition fails
MergingExit ==
    /\ mode = "merging" /\ pc = "loop"
    /\ ~(chunk_start < end_time)
    /\ pc' = "done"
    /\ UNCHANGED <<mode, visited, all_observations, end_time, chunk_start, chunk_observations,
                   context_observations, context_cards, cards, new_card, previous_card,
                   final_cards, all_cards, decision, merged_card, response, calls>>
    /\ UNCHANGED <<merge_yes, chain, videoVars>>

\* MergingSkipEmpty removing the first observation from the list
MergingSkipEmptyConsuming ==
    /\ mode = "merging" /\ pc = "loop"
    /\ chunk_start < end_time
    /\ chunk_observations' = ChunkSelect(all_observations, chunk_start)
    /\ Len(chunk_observations') = 0
    /\ visited' = Append(visited, Visit(chunk_start, chunk_observations', <<>>))
    /\ NextChunk
    /\ all_observations' = Tail(all_observations)
    /\ UNCHANGED <<mode, end_time, context_observations, context_cards,
                   cards, new_card, previous_card, final_cards, all_cards, merged_card>>
    /\ UNCHANGED <<merge_yes, chain, videoVars>>

\* lines 156-164: a window that intersects no observation
MergingSkipEmpty ==
    /\ mode = "merging" /\ pc = "loop"
    /\ chunk_start < end_time
    /\ chunk_observations' = ChunkSelect(all_observations, chunk_start)
    /\ Len(chunk_observations') = 0
    /\ visited' = Append(visited, Visit(chunk_start, chunk_observations', <<>>))
    /\ NextChunk
    /\ UNCHANGED <<mode, all_observations, end_time, context_observations, context_cards,
                   cards, new_card, previous_card, final_cards, all_cards, merged_card>>
    /\ UNCHANGED <<merge_yes, chain, videoVars>>

\* lines 156-189: select the chunk and generate its card
MergingGenerate ==
    /\ mode = "merging" /\ pc = "loop"
    /\ chunk_start < end_time
    /\ chunk_observations' = ChunkSelect(all_observations, chunk_start)
    /\ Len(chunk_observations') > 0
    /\ visited' = Append(visited, Visit(chunk_start, chunk_observations', <<>>))
    /\ \E resp \in Responses :
        /\ cards' = _generate_activity_cards(chunk_observations', resp).cards
        /\ response' = resp
    /\ calls' = 1
    /\ IF Len(cards') = 0
       THEN /\ chunk_start' = chunk_start + chunk_duration
            /\ pc' = "loop"
            /\ UNCHANGED new_card
       ELSE /\ new_card' = <<cards'[1]>>
            /\ pc' = "consolidate"
            /\ UNCHANGED chunk_start
    /\ UNCHANGED <<mode, all_observations, end_time, context_observations, context_cards,
                   previous_card, final_cards, all_cards, decision, merged_card>>
    /\ UNCHANGED <<merge_yes, chain, videoVars>>

\* MergingFirstCard remembering the card without appending it
MergingFirstCardUncommitted ==
    /\ mode = "merging" /\ pc = "consolidate"
    /\ previous_card = <<>>
    /\ previous_card' = new_card
    /\ NextChunk
    /\ UNCHANGED <<mode, visited, all_observations, end_time, chunk_observations,
                   context_observations, context_cards, cards, new_card, all_cards,
                   merged_card, final_cards>>
    /\ chain' = ChainFrom(final_cards', new_card[1])
    /\ UNCHANGED <<merge_yes, videoVars>>

\* lines 211-216: the first card
MergingFirstCard ==
    /\ mode = "merging" /\ pc = "consolidate"
    /\ previous_card = <<>>
    /\ final_cards' = AppendCard(final_cards, new_card[1])
    /\ previous_card' = new_card
    /\ NextChunk
    /\ UNCHANGED <<mode, visited, all_observations, end_time, chunk_observations,
                   context_observations, context_cards, cards, new_card, all_cards,
                   merged_card>>
    /\ chain' = ChainFrom(final_cards', new_card[1])
    /\ UNCHANGED <<merge_yes, videoVars>>

\* line 195: should_merge_cards(previous_card, new_card). The concatenation
\* raises TypeError on a title or summary that is no str; a keyword found
\* returns False before any call; otherwise one inference call decides.
MergingDecide ==
    /\ mode = "merging" /\ pc = "consolidate"
    /\ previous_card # <<>>
    /\ IF ~CanConcat(previous_card[1], new_card[1])
       THEN /\ pc' = "crashed"
            /\ UNCHANGED <<decision, calls, response>>
       ELSE IF FoundKeyword(previous_card[1], new_card[1])
       THEN /\ pc' = "decided"
            /\ decision' = JFalse
            /\ UNCHANGED <<calls, response>>
       ELSE \E resp \in Responses :
            /\ pc' = "decided"
            /\ decision' = MergeAnswer(resp)
            /\ calls' = calls + 1
            /\ response' = resp
    /\ merge_yes' = merge_yes + (IF pc' = "decided" /\ PyFormat(decision') = "True"
                                 THEN 1 ELSE 0)
    /\ UNCHANGED <<mode, visited, all_observations, end_time, chunk_start, chunk_observations,
                   context_observations, context_cards, cards, new_card, previous_card,
                   final_cards, all_cards, merged_card, chain>>
    /\ UNCHANGED videoVars

\* line 197: merge_two_cards(previous_card, new_card)
MergingFuse ==
    /\ mode = "merging" /\ pc = "decided"
    /\ Truthy(decision)
    /\ \E resp \in Responses :
        /\ merged_card' = <<merge_two_cards(previous_card[1], new_card[1], resp)>>
        /\ response' = resp
    /\ calls' = calls + 1
    /\ pc' = "fused"
    /\ UNCHANGED <<mode, visited, all_observations, end_time, chunk_start, chunk_observations,
                   context_observations, context_cards, cards, new_card, previous_card,
                   final_cards, all_cards, decision>>
    /\ UNCHANGED <<merge_yes, chain, videoVars>>

\* MergingReplace going on from the new card instead of the fused card
MergingReplaceFromNew ==
    /\ mode = "merging" /\ pc = "fused"
    /\ final_cards' = ReplaceLast(final_cards, previous_card[1], merged_card[1])
    /\ previous_card' = new_card
    /\ NextChunk
    /\ UNCHANGED <<mode, visited, all_observations, end_time, chunk_observations,
                   context_observations, context_cards, cards, new_card, all_cards,
                   merged_card>>
    /\ chain' = ChainFused(chain, new_card[1])
    /\ UNCHANGED <<merge_yes, videoVars>>

\* lines 200-206 and 216: the fused card takes the place of the previous card
MergingReplace ==
    /\ mode = "merging" /\ pc = "fused"
    /\ final_cards' = ReplaceLast(final_cards, previous_card[1], merged_card[1])
    /\ previous_card' = merged_card
    /\ NextChunk
    /\ UNCHANGED <<mode, visited, all_observations, end_time, chunk_observations,
                   context_observations, context_cards, cards, new_card, all_cards,
                   merged_card>>
    /\ chain' = ChainFused(chain, new_card[1])
    /\ UNCHANGED <<merge_yes, videoVars>>

\* lines 207-210 and 216: the new card is kept separate
MergingKeepSeparate ==
    /\ mode = "merging" /\ pc = "decided"
    /\ ~Truthy(decision)
    /\ final_cards' = AppendCard(final_cards, new_card[1])
    /\ previous_card' = new_card
    /\ NextChunk
    /\ UNCHANGED <<mode, visited, all_observations, end_time, chunk_observations,
                   context_observations, context_cards, cards, new_card, all_cards,
                   merged_card>>
    /\ chain' = ChainFrom(final_cards', new_card[1])
    /\ UNCHANGED <<merge_yes, videoVars>>

\* ChunksLoad treating an empty list as an empty time range
ChunksLoadTolerant ==
    /\ mode = "chunks" /\ pc = "start"
    /\ all_observations' = SortByStart(all_observations)
    /\ pc' = "loop"
    /\ IF Len(all_observations) = 0
       THEN /\ chunk_start' = 0
            /\ end_time' = 0
       ELSE /\ chunk_start' = all_observations'[1].start_ts
            /\ end_time' = all_observations'[Len(all_observations)].end_ts
    /\ UNCHANGED <<mode, visited, chunk_observations, context_observations, context_cards, cards,
                   new_card, previous_card, final_cards, all_cards, decision,
                   merged_card, response, calls>>
    /\ UNCHANGED <<merge_yes, chain, videoVars>>

\* lines 13-23 of process_observations_in_chunks
ChunksLoad ==
    /\ mode = "chunks" /\ pc = "start"
    /\ all_observations' = SortByStart(all_observations)
    /\ IF Len(all_observations) = 0
       THEN /\ pc' = "error"
            /\ UNCHANGED <<end_time, chunk_start>>
       ELSE /\ pc' = "loop"
            /\ chunk_start' = all_observations'[1].start_ts
            /\ end_time' = all_observations'[Len(all_observations)].end_ts
    /\ UNCHANGED <<mode, visited, chunk_observations, context_observations, context_cards, cards,
                   new_card, previous_card, final_cards, all_cards, decision,
                   merged_card, response, calls>>
    /\ UNCHANGED <<merge_yes, chain, videoVars>>

\* line 25: the loop condition fails, all_cards is returned
ChunksExit ==
    /\ mode = "chunks" /\ pc = "loop"
    /\ ~(chunk_start < end_time)
    /\ pc' = "done"
    /\ UNCHANGED <<mode, visited, all_observations, end_time, chunk_start, chunk_observations,
                   context_observations, context_cards, cards, new_card, previous_card,
                   final_cards, all_cards, decision, merged_card, response, calls>>
    /\ UNCHANGED <<merge_yes, chain, videoVars>>

\* lines 28-36: a window that intersects no observation
ChunksSkipEmpty ==
    /\ mode = "chunks" /\ pc = "loop"
    /\ chunk_start < end_time
    /\ chunk_observations' = ChunkSelect(all_observations, chunk_start)
    /\ Len(chunk_observations') = 0
    /\ visited' = Append(visited, Visit(chunk_start, chunk_observations', <<>>))
    /\ NextChunk
    /\ UNCHANGED <<mode, all_observations, end_time, context_observations, context_cards,
                   cards, new_card, previous_card, final_cards, all_cards, merged_card>>
    /\ UNCHANGED <<merge_yes, chain, videoVars>>

\* lines 28-79: select the chunk and its context, generate, extend all_cards
ChunksGenerate ==
    /\ mode = "chunks" /\ pc = "loop"
    /\ chunk_start < end_time
    /\ chunk_observations' = ChunkSelect(all_observations, chunk_start)
    /\ Len(chunk_observations') > 0
    /\ context_observations' = ContextSelect(all_observations, chunk_start)
    /\ context_cards' = ContextCards(all_cards)
    /\ visited' = Append(visited, Visit(chunk_start, chunk_observations',
                                         context_observations'))
    /\ \E resp \in Responses :
        /\ cards' = modified_generate(chunk_observations', resp).cards
        /\ response' = resp
    /\ calls' = 1
    /\ all_cards' = all_cards \o cards'
    /\ chunk_start' = chunk_start + chunk_duration
    /\ pc' = "loop"
    /\ UNCHANGED <<mode, all_observations, end_time, new_card, previous_card,
                   final_cards, decision, merged_card>>
    /\ UNCHANGED <<merge_yes, chain, videoVars>>

Next ==
    \/ MergingLoad
    \/ MergingExit
    \/ MergingSkipEmpty
    \/ MergingGenerate
    \/ MergingFirstCard
    \/ MergingDecide
    \/ MergingFuse
    \/ MergingReplace
    \/ MergingKeepSeparate
    \/ ChunksLoad
    \/ ChunksExit
    \/ ChunksSkipEmpty
    \/ ChunksGenerate

Spec == Init /\ [][Next]_vars

----------------------------------------------------------------------------
(* Segment Merger: VideoProcessor._merge_frame_descriptions *)

\* longest list of frame descriptions
MaxFrames == 2
\* a batch lasts up to MaxHalves half seconds past its last frame
MaxHalves == 5
\* most tokens before and most tokens after the JSON text of a response
MaxPad == 1
\* longest list of video paths
MaxVideos == 2
\* most frames of a video of the pipeline
MaxClipFrames == 1

\* batch_start_time.timestamp() and video_duration are floats: the model
\* counts them in half seconds, and int() drops the half
HalvesPerSecond == 2
IntOf(halves) == halves \div HalvesPerSecond

FRAME_EXTRACTION_INTERVAL == 30

Captions == {"vscode", "gmail"}
\* the (timestamp, description) pairs of a batch of n frames: one frame
\* every FRAME_EXTRACTION_INTERVAL seconds
FrameInputs(n) ==
    {[i \in 1..n |-> <<(i - 1) * FRAME_EXTRACTION_INTERVAL, f[i]>>] :
        f \in [1..n -> Captions]}
\* the durations of a batch of n frames: the last frame lies inside it
Durations(n) ==
    {HalvesPerSecond * (n - 1) * FRAME_EXTRACTION_INTERVAL + h : h \in 1..MaxHalves}
StartInstants == {HalvesPerSecond * BaseTs + h : h \in 0..(HalvesPerSecond - 1)}

RECURSIVE SplitFrom(_, _, _)
\* the parts of s from position i on, cur being the part begun
SplitFrom(s, i, cur) ==
    IF i > Len(s) THEN <<cur>>
    ELSE IF CharAt(s, i) = ":" THEN <<cur>> \o SplitFrom(s, i + 1, "")
    ELSE SplitFrom(s, i + 1, cur \o CharAt(s, i))

\* timestamp.split(':')
split(s) == SplitFrom(s, 1, "")

\* int(part) accepts the text: decimal digits (signs, blanks and
\* underscores do not occur in the texts of the model)
IsIntText(t) == Len(t) > 0 /\ \A i \in 1..Len(t) : CharAt(t, i) \in DigitSet

RECURSIVE IntUpTo(_, _)
\* the number written by the first n digits of t
IntUpTo(t, n) == IF n = 0 THEN 0 ELSE 10 * IntUpTo(t, n - 1) + DigitVal(CharAt(t, n))

\* int(part)
int(t) == IntUpTo(t, Len(t))

TimestampRaised == [raised |-> TRUE, seconds |-> 0]

\* VideoProcessor._parse_timestamp: AttributeError on a value that is no
\* str, ValueError on a part that is no integer or on a wrong number of parts
_parse_timestamp(timestamp) ==
    IF ~IsStr(timestamp) THEN TimestampRaised
    ELSE LET parts == split(timestamp.s)
         IN  IF Len(parts) \notin {2, 3} THEN TimestampRaised
             ELSE IF \E i \in 1..Len(parts) : ~IsIntText(parts[i]) THEN TimestampRaised
             ELSE IF Len(parts) = 2
             THEN [raised |-> FALSE, seconds |-> int(parts[1]) * 60 + int(parts[2])]
             ELSE [raised |-> FALSE,
                   seconds |-> int(parts[1]) * 3600 + int(parts[2]) * 60 + int(parts[3])]

Observation(start_ts, end_ts, observation, metadata) ==
    [start_ts |-> start_ts, end_ts |-> end_ts, observation |-> observation,
     metadata |-> metadata]

LLMCall(output, error) == [output |-> output, error |-> error]

SegmentKeys == {"startTimestamp", "endTimestamp", "description"}

\* the loop body of lines 423-435 runs through for this segment
SegmentOk(segment) ==
    /\ segment.isdict
    /\ SegmentKeys \subseteq DOMAIN segment.d
    /\ ~_parse_timestamp(segment.d["startTimestamp"]).raised
    /\ ~_parse_timestamp(segment.d["endTimestamp"]).raised

\* SegmentObservation with both bounds at the start of the batch
SegmentObservationAtStart(T0, segment) ==
    Observation(IntOf(T0), IntOf(T0), segment.d["description"], "model")

\* lines 424-435: the Observation of one segment
SegmentObservation(T0, segment) ==
    Observation(IntOf(T0 + HalvesPerSecond
                        * _parse_timestamp(segment.d["startTimestamp"]).seconds),
                IntOf(T0 + HalvesPerSecond
                        * _parse_timestamp(segment.d["endTimestamp"]).seconds),
                segment.d["description"], "model")

\* lines 457-463: the single Observation of the except branch
FallbackObservation(T0, D) ==
    Observation(IntOf(T0), IntOf(T0 + D), Str("Failed to merge frame descriptions"),
                "error")

\* _merge_frame_descriptions keeping, when a segment fails, the Observations
\* of the segments that convert
MergeKeepingConverted(T0, D, resp) ==
    LET segments == _parse_json_from_response(resp.text, "list")
        good == SelectSeq(segments.l, SegmentOk)
    IN  IF resp.fail \/ segments.raised
        THEN [observations |-> <<FallbackObservation(T0, D)>>,
              call |-> LLMCall(<<>>, TRUE)]
        ELSE [observations |-> [i \in 1..Len(good) |-> SegmentObservation(T0, good[i])],
              call |-> LLMCall(resp.text, FALSE)]

\* VideoProcessor._merge_frame_descriptions: the list returned and the
\* record appended to llm_calls
_merge_frame_descriptions(T0, D, resp) ==
    LET segments == _parse_json_from_response(resp.text, "list")
    IN  IF resp.fail \/ segments.raised
           \/ \E i \in 1..Len(segments.l) : ~SegmentOk(segments.l[i])
        THEN [observations |-> <<FallbackObservation(T0, D)>>,
              call |-> LLMCall(<<>>, TRUE)]
        ELSE [observations |->
                [i \in 1..Len(segments.l) |-> SegmentObservation(T0, segments.l[i])],
              call |-> LLMCall(resp.text, FALSE)]

\* the texts the segment-merge call may return
SegmentResponses ==
    { TransportError,
      Text(<<"p">>),
      Text(<<"[", "]">>),
      Text(<<"[", "7", "]">>),
      Text(<<"{", "s_head", "}">>),
      Text(<<"p", "{", "s_head", "}", "p">>),
      Text(<<"[", "{", "s_head", "}", "{", "s_tail", "}", "]">>),
      Text(<<"[", "{", "s_head", "}", "{", "s_head", "}", "]">>),
      Text(<<"[", "{", "s_tail", "}", "{", "s_head", "}", "]">>),
      Text(<<"[", "{", "s_first", "}", "{", "s_rest", "}", "]">>),
      Text(<<"[", "{", "s_tail", "}", "]">>),
      Text(<<"[", "{", "s_same", "}", "]">>),
      Text(<<"[", "{", "s_back", "}", "]">>),
      Text(<<"[", "{", "s_long", "}", "]">>),
      Text(<<"[", "{", "s_head", "}", "{", "s_bad", "}", "]">>),
      Text(<<"[", "{", "s_head", "}", "{", "s_nokey", "}", "]">>),
      Text(<<"[", "{", "s_null", "}", "]">>),
      Text(<<"[", "{", "s_head", "}", "{", "s_abc", "}", "]">>),
      Text(<<"[", "{", "s_head", "}", "{", "s_tail", "}", "{", "s_head", "}",
                  "{", "s_tail", "}", "{", "s_head", "}", "{", "s_tail", "}", "]">>) }

\* a batch is about to be merged: its frame descriptions, start and duration
SegInit ==
    /\ mode = "video"
    /\ pc = "merge"
    /\ \E n \in 1..MaxFrames :
        /\ frame_descriptions \in FrameInputs(n)
        /\ video_duration \in Durations(n)
    /\ batch_start_time \in StartInstants
    /\ video_observations = <<>>
    /\ llm_calls = <<>>
    /\ response = NoResponse
    /\ all_observations = <<>>
    /\ end_time = 0
    /\ chunk_start = 0
    /\ chunk_observations = <<>>
    /\ context_observations = <<>>
    /\ context_cards = <<>>
    /\ cards = <<>>
    /\ new_card = <<>>
    /\ previous_card = <<>>
    /\ final_cards = <<>>
    /\ all_cards = <<>>
    /\ decision = JFalse
    /\ merged_card = <<>>
    /\ calls = 0
    /\ visited = <<>>
    /\ merge_yes = 0
    /\ chain = NoChain
    /\ PipelineIdle

\* lines 406-463: one call, then the segments or the fallback
MergeFrameDescriptions ==
    /\ mode = "video" /\ pc = "merge"
    /\ \E resp \in SegmentResponses :
        LET result == _merge_frame_descriptions(batch_start_time, video_duration, resp)
        IN  /\ video_observations' = <<result.observations>>
            /\ llm_calls' = Append(llm_calls, result.call)
            /\ response' = resp
    /\ pc' = "merged"
    /\ UNCHANGED <<mode, all_observations, end_time, chunk_start, chunk_observations,
                   context_observations, context_cards, cards, new_card, previous_card,
                   final_cards, all_cards, decision, merged_card, calls, visited,
                   merge_yes, chain>>
    /\ UNCHANGED <<frame_descriptions, batch_start_time, video_duration, pipelineVars>>

SegNext == MergeFrameDescriptions

SegSpec == SegInit /\ [][SegNext]_vars

-----------------------------------------------------------------------------
(* The video pipeline: process_video_list and process_single_video *)

\* the video paths a list file may name
Paths == {"a.mp4", "b.mp4"}

\* the lists of paths read from the list file (lines 99-100)
VideoLists == UNION {[1..n -> Paths] : n \in 1..MaxVideos}

RECURSIVE Decimal(_)
\* str(n) of an integer n >= 0
Decimal(n) == IF n < 10 THEN Digit(n) ELSE Decimal(n \div 10) \o Digit(n % 10)

\* TwoDigits keeping the last two digits only
TwoDigitsTruncated(n) == Digit((n \div 10) % 10) \o Digit(n % 10)

\* the :02d format: zero padded to two digits, never shortened
TwoDigits(n) == IF n < 10 THEN "0" \o Digit(n) ELSE Decimal(n)

\* VideoProcessor._format_duration, the float seconds counted in half
\* seconds: // and % keep the half, int() drops it
_format_duration(duration) ==
    LET hours == duration \div (3600 * HalvesPerSecond)
        minutes == (duration % (3600 * HalvesPerSecond)) \div (60 * HalvesPerSecond)
        secs == IntOf(duration % (60 * HalvesPerSecond))
    IN  IF hours > 0
        THEN TwoDigits(hours) \o ":" \o TwoDigits(minutes) \o ":" \o TwoDigits(secs)
        ELSE TwoDigits(minutes) \o ":" \o TwoDigits(secs)

\* the fields of the Observation dataclass (lines 58-64)
ObservationFields == {"start_ts", "end_ts", "observation", "metadata"}
RequiredFields == {"start_ts", "end_ts", "observation"}

\* dataclasses.asdict of an Observation
asdict(obs) == [k \in ObservationFields |-> obs[k]]

\* Observation(**obs): TypeError on a missing or an unexpected key
FromDictOk(d) == RequiredFields \subseteq DOMAIN d /\ DOMAIN d \subseteq ObservationFields

FromDict(d) ==
    Observation(d["start_ts"], d["end_ts"], d["observation"],
                IF "metadata" \in DOMAIN d THEN d["metadata"] ELSE "none")

\* a JSON file: text that json.load rejects, or the list of objects it holds
BrokenFile == <<[valid |-> FALSE, entries |-> <<>>]>>
ListFile(entries) == <<[valid |-> TRUE, entries |-> entries]>>

\* json.dump([asdict(obs) for obs in observations], f)
DumpObservations(observations) ==
    ListFile([i \in 1..Len(observations) |-> asdict(observations[i])])

\* the cached_observations.json a path may start with: no file, text that
\* is no JSON, an entry without end_ts, one observation without metadata,
\* the empty list
CacheFiles ==
    { <<>>,
      BrokenFile,
      ListFile(<<[start_ts |-> BaseTs, observation |-> Str("read")]>>),
      ListFile(<<[start_ts |-> BaseTs, end_ts |-> BaseTs + 60,
                  observation |-> Str("mail")]>>),
      ListFile(<<>>) }

\* LoadCached that never finds a usable cache
LoadCachedNever(file) == <<>>

\* lines 132-144: the cached list as <<list>>, or <<>> for None
LoadCached(file) ==
    IF file = <<>> THEN <<>>
    ELSE IF ~file[1].valid THEN <<>>
    ELSE IF \E i \in 1..Len(file[1].entries) : ~FromDictOk(file[1].entries[i]) THEN <<>>
    ELSE <<[i \in 1..Len(file[1].entries) |-> FromDict(file[1].entries[i])]>>

\* a record of llm_calls with the video during which it was appended
\* (the timestamp field)
Stamp(call, video) == [output |-> call.output, error |-> call.error, during |-> video]

\* the outcomes of the description call of a frame
DescriptionOutcomes == {TransportError, Text(<<"vscode">>)}

\* lines 305-334: the description returned for a frame at an offset
FrameDescription(offset, outcome) ==
    IF outcome.fail
    THEN "[Error analyzing frame at " \o _format_duration(HalvesPerSecond * offset) \o "]"
    ELSE outcome.text[1]

\* lines 316-333: the record appended for a frame
FrameCall(outcome) ==
    IF outcome.fail THEN LLMCall(<<>>, TRUE) ELSE LLMCall(outcome.text, FALSE)

\* the responses to the merge call and to the generation call
PipelineMergeResponses ==
    { TransportError,
      Text(<<"[", "]">>),
      Text(<<"[", "{", "s_head", "}", "]">>) }

PipelineCardResponses == {TransportError, Text(<<"{", "m_code", "}">>)}

\* lines 518-566: the record _generate_activity_cards appends
CardCall(observations, resp) ==
    IF resp.fail \/ _parse_json_from_response(resp.text, "dict").raised
       \/ Len(observations) = 0
    THEN LLMCall(<<>>, TRUE)
    ELSE LLMCall(resp.text, FALSE)

\* the path being processed
video_path == video_paths[video_index]

PipelineInit ==
    /\ mode = "pipeline"
    /\ pc = "video"
    /\ video_paths \in VideoLists
    /\ video_index = 1
    /\ cached_obs_file \in [Paths -> CacheFiles]
    /\ llm_calls_file = <<>>
    /\ stages = <<>>
    /\ formatted = <<>>
    /\ reparsed = <<>>
    /\ llm_calls = <<>>
    /\ parse_type = ""
    /\ parse_result = <<>>
    /\ frame_descriptions = <<>>
    /\ batch_start_time = 0
    /\ video_duration = 0
    /\ video_observations = <<>>
    /\ response = NoResponse
    /\ all_observations = <<>>
    /\ end_time = 0
    /\ chunk_start = 0
    /\ chunk_observations = <<>>
    /\ context_observations = <<>>
    /\ context_cards = <<>>
    /\ cards = <<>>
    /\ new_card = <<>>
    /\ previous_card = <<>>
    /\ final_cards = <<>>
    /\ all_cards = <<>>
    /\ decision = JFalse
    /\ merged_card = <<>>
    /\ calls = 0
    /\ visited = <<>>
    /\ merge_yes = 0
    /\ chain = NoChain

\* what no pipeline step touches
PipelineUnchanged ==
    UNCHANGED <<mode, all_observations, end_time, chunk_start, chunk_observations,
                context_observations, context_cards, new_card, previous_card,
                final_cards, all_cards, decision, merged_card, calls, visited,
                merge_yes, chain, parse_type, parse_result, video_paths, formatted,
                reparsed>>

\* the locals of process_single_video go out of scope
LocalsDropped ==
    /\ frame_descriptions' = <<>>
    /\ batch_start_time' = 0
    /\ video_duration' = 0
    /\ video_observations' = <<>>
    /\ cards' = <<>>
    /\ stages' = <<>>
    /\ response' = NoResponse

\* VideoFailed ending the run at the first exception
VideoFailedStops ==
    /\ video_index' = video_index
    /\ pc' = "done"
    /\ LocalsDropped

\* lines 111-113: the exception of process_single_video is logged and the
\* loop continues with the next path
VideoFailed ==
    /\ video_index' = video_index + 1
    /\ pc' = "video"
    /\ LocalsDropped

\* line 107: the for loop is exhausted
VideoListDone ==
    /\ mode = "pipeline" /\ pc = "video"
    /\ video_index > Len(video_paths)
    /\ pc' = "done"
    /\ UNCHANGED <<video_index, cached_obs_file, llm_calls_file, stages, llm_calls,
                   frame_descriptions, batch_start_time, video_duration,
                   video_observations, cards, response>>
    /\ PipelineUnchanged

\* lines 117-119: the video file does not exist
VideoMissing ==
    /\ mode = "pipeline" /\ pc = "video"
    /\ video_index <= Len(video_paths)
    /\ VideoFailed
    /\ UNCHANGED <<cached_obs_file, llm_calls_file, llm_calls>>
    /\ PipelineUnchanged

\* lines 128-147: try the cached observations
LoadCache ==
    /\ mode = "pipeline" /\ pc = "video"
    /\ video_index <= Len(video_paths)
    /\ LET observations == LoadCached(cached_obs_file[video_path])
       IN  IF observations # <<>>
           THEN /\ video_observations' = observations
                /\ stages' = <<"cache_hit">>
                /\ pc' = "generate"
           ELSE /\ video_observations' = <<>>
                /\ stages' = <<"cache_miss">>
                /\ pc' = "duration"
    /\ UNCHANGED <<video_index, cached_obs_file, llm_calls_file, llm_calls,
                   frame_descriptions, batch_start_time, video_duration, cards, response>>
    /\ PipelineUnchanged

\* the durations ffprobe may report: half a second past the last frame
ClipDurations ==
    {HalvesPerSecond * (n - 1) * FRAME_EXTRACTION_INTERVAL + 1 : n \in 1..MaxClipFrames}

\* line 149: ffprobe reports the duration
GetVideoDuration ==
    /\ mode = "pipeline" /\ pc = "duration"
    /\ video_duration' \in ClipDurations
    /\ stages' = Append(stages, "duration")
    /\ pc' = "extract"
    /\ UNCHANGED <<video_index, cached_obs_file, llm_calls_file, llm_calls,
                   frame_descriptions, batch_start_time, video_observations, cards,
                   response>>
    /\ PipelineUnchanged

\* lines 228-233: ffprobe fails or prints no number
DurationFails ==
    /\ mode = "pipeline" /\ pc = "duration"
    /\ VideoFailed
    /\ UNCHANGED <<cached_obs_file, llm_calls_file, llm_calls>>
    /\ PipelineUnchanged

\* the offsets _extract_frames tries: 0, 30, ... below the duration
FrameOffsets(duration) ==
    {t \in 0..IntOf(duration) :
        t % FRAME_EXTRACTION_INTERVAL = 0 /\ HalvesPerSecond * t < duration}

\* the offsets of a set in increasing order
RECURSIVE InOrder(_)
InOrder(offsets) ==
    IF offsets = {} THEN <<>>
    ELSE LET least == CHOOSE t \in offsets : \A u \in offsets : t <= u
         IN  <<least>> \o InOrder(offsets \ {least})

\* lines 152-168: the frames ffmpeg extracts (a failed extraction drops the
\* frame) and one description call per frame
AnalyzeFrames ==
    /\ mode = "pipeline" /\ pc = "extract"
    /\ \E kept \in SUBSET FrameOffsets(video_duration) :
        LET frames == InOrder(kept)
        IN  \E outcome \in [1..Len(frames) -> DescriptionOutcomes] :
            /\ frame_descriptions' =
                [i \in 1..Len(frames) |-> <<frames[i], FrameDescription(frames[i], outcome[i])>>]
            /\ llm_calls' = llm_calls \o
                [i \in 1..Len(frames) |-> Stamp(FrameCall(outcome[i]), video_index)]
            /\ stages' = stages \o <<"extract">> \o [i \in 1..Len(frames) |-> "describe"]
    /\ pc' = "merge"
    /\ UNCHANGED <<video_index, cached_obs_file, llm_calls_file, batch_start_time,
                   video_duration, video_observations, cards, response>>
    /\ PipelineUnchanged

\* lines 170-185: merge the descriptions and write observations.json and
\* cached_observations.json
MergeAndCache ==
    /\ mode = "pipeline" /\ pc = "merge"
    /\ \E T0 \in StartInstants, resp \in PipelineMergeResponses :
        LET result == _merge_frame_descriptions(T0, video_duration, resp)
        IN  /\ batch_start_time' = T0
            /\ response' = resp
            /\ video_observations' = <<result.observations>>
            /\ llm_calls' = Append(llm_calls, Stamp(result.call, video_index))
            /\ cached_obs_file' = [cached_obs_file EXCEPT
                                      ![video_path] = DumpObservations(result.observations)]
    /\ stages' = stages \o <<"merge", "cache_write">>
    /\ pc' = "generate"
    /\ UNCHANGED <<video_index, llm_calls_file, frame_descriptions, video_duration, cards>>
    /\ PipelineUnchanged

\* lines 187-195: generate the cards; observations[0] on an empty list
\* raises out of the except branch after the error record was appended
GenerateCards ==
    /\ mode = "pipeline" /\ pc = "generate"
    /\ \E resp \in PipelineCardResponses :
        LET result == _generate_activity_cards(video_observations[1], resp)
        IN  /\ llm_calls' = Append(llm_calls,
                                   Stamp(CardCall(video_observations[1], resp), video_index))
            /\ IF result.raised
               THEN VideoFailed
               ELSE /\ cards' = result.cards
                    /\ response' = resp
                    /\ stages' = Append(stages, "generate")
                    /\ pc' = "write"
                    /\ UNCHANGED <<video_index, frame_descriptions, batch_start_time,
                                   video_duration, video_observations>>
    /\ UNCHANGED <<cached_obs_file, llm_calls_file>>
    /\ PipelineUnchanged

\* lines 197-215: write llm_calls.json, clear the log, return
WriteCalls ==
    /\ mode = "pipeline" /\ pc = "write"
    /\ llm_calls_file' = <<[video |-> video_index, calls |-> llm_calls]>>
    /\ llm_calls' = <<>>
    /\ video_index' = video_index + 1
    /\ pc' = "video"
    /\ LocalsDropped
    /\ UNCHANGED cached_obs_file
    /\ PipelineUnchanged

PipelineNext ==
    \/ VideoListDone
    \/ VideoMissing
    \/ LoadCache
    \/ GetVideoDuration
    \/ DurationFails
    \/ AnalyzeFrames
    \/ MergeAndCache
    \/ GenerateCards
    \/ WriteCalls

PipelineSpec == PipelineInit /\ [][PipelineNext]_vars

-----------------------------------------------------------------------------
(* The response parser on its own *)

\* the tokens a response may hold around its JSON text
PadTokens == {"p", "[", "]", "{", "}"}

\* what may precede or follow the JSON text of a response
Pads == UNION {[1..n -> PadTokens] : n \in 0..MaxPad}

\* the JSON texts and fragments a response may hold
Cores ==
    { <<>>,
      <<"7">>,
      <<"{", "}">>,
      <<"{", "m_code", "}">>,
      <<"[", "]">>,
      <<"[", "7", "]">>,
      <<"[", "{", "m_code", "}", "]">>,
      <<"[", "{", "m_code", "}", "{", "m_no", "}", "]">>,
      <<"[", "{", "m_code", "}">>,
      <<"{", "m_code">> }

ParseInit ==
    /\ mode = "parse"
    /\ pc = "parse"
    /\ \E before \in Pads, core \in Cores, after \in Pads :
        response = Text(before \o core \o after)
    /\ parse_type \in {"list", "dict"}
    /\ parse_result = <<>>
    /\ video_paths = <<>>
    /\ video_index = 0
    /\ cached_obs_file = <<>>
    /\ llm_calls_file = <<>>
    /\ stages = <<>>
    /\ formatted = <<>>
    /\ reparsed = <<>>
    /\ frame_descriptions = <<>>
    /\ batch_start_time = 0
    /\ video_duration = 0
    /\ video_observations = <<>>
    /\ llm_calls = <<>>
    /\ all_observations = <<>>
    /\ end_time = 0
    /\ chunk_start = 0
    /\ chunk_observations = <<>>
    /\ context_observations = <<>>
    /\ context_cards = <<>>
    /\ cards = <<>>
    /\ new_card = <<>>
    /\ previous_card = <<>>
    /\ final_cards = <<>>
    /\ all_cards = <<>>
    /\ decision = JFalse
    /\ merged_card = <<>>
    /\ calls = 0
    /\ visited = <<>>
    /\ merge_yes = 0
    /\ chain = NoChain

\* lines 635-673: one call of _parse_json_from_response(response, expected_type)
ParseResponse ==
    /\ mode = "parse" /\ pc = "parse"
    /\ parse_result' = <<_parse_json_from_response(response.text, parse_type)>>
    /\ pc' = "parsed"
    /\ UNCHANGED <<mode, all_observations, end_time, chunk_start, chunk_observations,
                   context_observations, context_cards, cards, new_card, previous_card,
                   final_cards, all_cards, decision, merged_card, calls, visited,
                   merge_yes, chain, response>>
    /\ UNCHANGED <<frame_descriptions, batch_start_time, video_duration,
                   video_observations, llm_calls>>
    /\ UNCHANGED <<parse_type, video_paths, video_index, cached_obs_file,
                   llm_calls_file, stages, formatted, reparsed>>

ParseNext == ParseResponse

ParseSpec == ParseInit /\ [][ParseNext]_vars

----------------------------------------------------------------------------
(* Properties *)

\* the cards compared by should_merge_cards
CardP == previous_card[1]
CardN == new_card[1]

KeywordSet == {distraction_keywords[i] : i \in 1..Len(distraction_keywords)}
KeywordInitials == {CharAt(k, 1) : k \in KeywordSet}
KeywordsFrom == [c \in KeywordInitials |-> {k \in KeywordSet : CharAt(k, 1) = c}]

\* some keyword occurs in text (at some position i a keyword starts)
HasKeyword(text) ==
    \E i \in 1..Len(text) :
        /\ CharAt(text, i) \in KeywordInitials
        /\ \E k \in KeywordsFrom[CharAt(text, i)] :
            /\ i + Len(k) - 1 <= Len(text)
            /\ SubSeq(text, i, i + Len(k) - 1) = k

\* the lowercase concatenation of the four texts contains a keyword
VetoTextFor(P, N) == HasKeyword(lower(P.title.s \o P.summary.s \o N.title.s \o N.summary.s))

\* a comparison is about to be made between two cards whose texts are strings
Comparing ==
    /\ mode = "merging" /\ pc = "consolidate" /\ previous_card # <<>>
    /\ IsStr(CardP.title) /\ IsStr(CardP.summary)
    /\ IsStr(CardN.title) /\ IsStr(CardN.summary)

\* C1: when the lowercase concatenation P.title + P.summary + N.title +
\* N.summary contains a distraction keyword, should_merge_cards returns False
\* and the comparison issues no inference call.
C1_VetoNoCall ==
    [][(Comparing /\ VetoTextFor(CardP, CardN))
        => (pc' = "decided" /\ decision' = JFalse /\ calls' = calls)]_vars

\* a vetoed comparison whose keyword is in no single text: it spans a title
\* and a summary and is spelled with capitals
C1_Witness ==
    /\ mode = "merging" /\ pc = "decided" /\ decision = JFalse /\ calls = 1
    /\ IsStr(CardP.title) /\ IsStr(CardP.summary)
    /\ IsStr(CardN.title) /\ IsStr(CardN.summary)
    /\ VetoTextFor(CardP, CardN)
    /\ \A t \in {CardP.title.s, CardP.summary.s, CardN.title.s, CardN.summary.s} :
        ~HasKeyword(lower(t))

\* C2: when the merge decision is True the last card of the timeline is
\* replaced by the fused card: the length is unchanged, the cards before
\* the last are unchanged, N is not appended, and the fused card is the
\* previous card of the next comparison.
C2_ReplaceOnMerge ==
    [][/\ (mode = "merging" /\ pc = "decided" /\ Truthy(decision))
            => (pc' = "fused" /\ final_cards' = final_cards /\ previous_card' = previous_card)
       /\ (mode = "merging" /\ pc = "fused")
            => /\ Len(final_cards) >= 1
               /\ Len(final_cards') = Len(final_cards)
               /\ \A i \in 1..(Len(final_cards) - 1) : final_cards'[i] = final_cards[i]
               /\ final_cards'[Len(final_cards)] = merged_card[1]
               /\ previous_card' = merged_card
               /\ pc' = "loop"]_vars

\* two chunks were fused into the one card of the timeline
C2_Witness ==
    /\ mode = "merging" /\ pc = "loop"
    /\ merged_card # <<>> /\ previous_card = merged_card
    /\ Len(final_cards) = 1 /\ final_cards[1] = merged_card[1]
    /\ new_card # previous_card

\* the new card is committed without a fusion: it is the first card, or the
\* merge decision was False
KeepsNewCard ==
    /\ mode = "merging"
    /\ \/ pc = "consolidate" /\ previous_card = <<>>
       \/ pc = "decided" /\ ~Truthy(decision)

\* C3: when the merge decision is False, or N is the first card, N is
\* appended: the timeline grows by exactly one, the cards already in it keep
\* position and content, and N is the previous card of the next comparison.
C3_AppendOnKeep ==
    [][KeepsNewCard
        => /\ Len(final_cards') = Len(final_cards) + 1
           /\ \A i \in 1..Len(final_cards) : final_cards'[i] = final_cards[i]
           /\ final_cards'[Len(final_cards) + 1] = CardN
           /\ previous_card' = new_card
           /\ pc' = "loop"]_vars

\* a second card was appended after a first one that differs from it
C3_Witness ==
    /\ mode = "merging" /\ pc = "loop"
    /\ Len(final_cards) = 2 /\ previous_card = new_card
    /\ final_cards[2] = CardN /\ final_cards[1] # final_cards[2]

\* the inference call of the latest step failed, or its response does not
\* parse as a JSON object
CallFailedAsObject ==
    /\ response # NoResponse
    /\ response.fail \/ _parse_json_from_response(response.text, "dict").raised

\* C4: when the inference call of should_merge_cards fails or its response
\* does not parse as a JSON object, should_merge_cards returns False (it does
\* not raise), and the new card is committed as a separate card.
C4_DecisionFailureIsNoMerge ==
    [][(mode = "merging" /\ pc = "decided" /\ CallFailedAsObject)
        => /\ decision = JFalse
           /\ pc' = "loop"
           /\ final_cards' = Append(final_cards, CardN)
           /\ previous_card' = new_card]_vars

\* the decision call returned a text that is no JSON object
C4_Witness ==
    /\ mode = "merging" /\ pc = "decided" /\ calls = 2
    /\ ~response.fail /\ CallFailedAsObject
    /\ decision = JFalse

\* C5: on the successful and on the fallback path, the card merge_two_cards
\* returns starts at P.start_time, ends at N.end_time and has P.category.
C5_FusionBounds ==
    (mode = "merging" /\ pc = "fused")
        => /\ merged_card # <<>>
           /\ merged_card[1].start_time = CardP.start_time
           /\ merged_card[1].end_time = CardN.end_time
           /\ merged_card[1].category = CardP.category

\* a fusion on the successful path of two cards with different bounds
C5_Witness ==
    /\ mode = "merging" /\ pc = "fused" /\ ~CallFailedAsObject
    /\ CardP.start_time # CardN.start_time
    /\ CardP.end_time # CardN.end_time
    /\ merged_card[1].start_time = CardP.start_time
    /\ merged_card[1].end_time = CardN.end_time

\* C6: when the inference call or the parsing inside merge_two_cards fails,
\* merge_two_cards returns a card with the title of P and the summary of P,
\* ' Continued with ', the summary of N; fusion returns a card in every case.
C6_FusionFallback ==
    (mode = "merging" /\ pc = "fused")
        => /\ merged_card # <<>>
           /\ CallFailedAsObject
                => /\ merged_card[1].title = CardP.title
                   /\ merged_card[1].summary =
                        Str(CardP.summary.s \o " Continued with " \o CardN.summary.s)

\* a fusion whose inference call raised
C6_Witness ==
    /\ mode = "merging" /\ pc = "fused" /\ response.fail
    /\ merged_card[1].summary = Str(CardP.summary.s \o " Continued with " \o CardN.summary.s)
    /\ CardP.title # CardN.title

\* the number a decimal digit stands for

\* the minute of the day a clock text "H:MM AM" names
ClockMinutes(t) ==
    LET n == Len(t)
        hourText == SubSeq(t, 1, n - 6)
        hour == IF Len(hourText) = 1 THEN DigitVal(hourText)
                ELSE 10 * DigitVal(CharAt(hourText, 1)) + DigitVal(CharAt(hourText, 2))
        minute == 10 * DigitVal(CharAt(t, n - 4)) + DigitVal(CharAt(t, n - 3))
    IN  ((hour % 12) + (IF SubSeq(t, n - 1, n) = "PM" THEN 12 ELSE 0)) * 60 + minute

\* C7: the cards of the timeline are in chronological order and do not
\* overlap: of two adjacent cards, the first ends no later than the second
\* starts.
C7_TimelineNonOverlapping ==
    mode = "merging"
        => \A i \in 1..(Len(final_cards) - 1) :
            ClockMinutes(final_cards[i].end_time.s)
                <= ClockMinutes(final_cards[i + 1].start_time.s)

\* the generator has just returned `cards` for chunk_observations
Generated ==
    \/ mode = "merging" /\ pc = "consolidate"
    \/ mode = "chunks" /\ pc \in {"loop", "done"} /\ calls = 1

EarliestStart(obs) ==
    CHOOSE t \in {obs[i].start_ts : i \in 1..Len(obs)} :
        \A i \in 1..Len(obs) : t <= obs[i].start_ts

LatestEnd(obs) ==
    CHOOSE t \in {obs[i].end_ts : i \in 1..Len(obs)} :
        \A i \in 1..Len(obs) : t >= obs[i].end_ts

\* C8: every card a generator emits for a chunk starts at the formatted
\* earliest start_ts and ends at the formatted latest end_ts of the chunk's
\* observations, whatever the context and the response are.
C8_BoundsFromChunk ==
    Generated
        => \A i \in 1..Len(cards) :
            /\ cards[i].start_time = Str(FormatTime(EarliestStart(chunk_observations)))
            /\ cards[i].end_time = Str(FormatTime(LatestEnd(chunk_observations)))

\* C9: for every chunk with at least one observation the generator returns
\* exactly one card, whatever the response is.
C9_ExactlyOneCard ==
    (Generated /\ Len(chunk_observations) >= 1) => Len(cards) = 1

\* the response of the generator's call does not have the shape the
\* generator expects: an object (plain), a list of card objects (context-aware)
GenerationFailed ==
    \/ response.fail
    \/ mode = "merging" /\ _parse_json_from_response(response.text, "dict").raised
    \/ mode = "chunks"
        /\ LET parsed == _parse_json_from_response(response.text, "list")
           IN  \/ parsed.raised
               \/ \E i \in 1..Len(parsed.l) :
                    \/ ~parsed.l[i].isdict
                    \/ \E k \in {"startTime", "endTime", "category", "title", "summary"} :
                        k \notin DOMAIN parsed.l[i].d

\* C10: when the generator's inference call fails or its response does not
\* parse into the expected shape, the generator returns exactly one card:
\* category Work, title 'Activity Session', summary 'User engaged in various
\* activities.', from the first observation's start to the last one's end.
C10_GeneratorFallback ==
    (Generated /\ GenerationFailed)
        => /\ Len(cards) = 1
           /\ cards[1].category = Str("Work")
           /\ cards[1].title = Str("Activity Session")
           /\ cards[1].summary = Str("User engaged in various activities.")
           /\ cards[1].start_time = Str(FormatTime(chunk_observations[1].start_ts))
           /\ cards[1].end_time =
                Str(FormatTime(chunk_observations[Len(chunk_observations)].end_ts))

\* the context-aware generator fell back on a list whose element lacks a
\* key, for a chunk of two observations that end at different minutes
C10_Witness ==
    /\ mode = "chunks" /\ Generated /\ GenerationFailed /\ ~response.fail
    /\ ~_parse_json_from_response(response.text, "list").raised
    /\ Len(chunk_observations) = 2
    /\ chunk_observations[1].end_ts # chunk_observations[2].end_ts
    /\ cards[1].title = Str("Activity Session")

----------------------------------------------------------------------------
(* Failure policy and scheduling *)

\* the run of process_with_merging was aborted by an exception that no
\* handler caught
Aborted == mode = "merging" /\ pc = "crashed"

\* the inference call that generated the card of the current chunk failed
\* or returned no object (the generator fell back)
GenerationFailedInChunk ==
    /\ mode = "merging"
    /\ Len(cards) = 1
    /\ (response.fail \/ _parse_json_from_response(response.text, "dict").raised)

\* C11: a failure of card generation, merge decision or fusion for a chunk
\* never aborts the run: the chunk's card is committed and the run goes on
\* to the later cursor positions and to its end. Stated for the generator:
\* no state is reached in which the run was aborted in the chunk whose
\* generation failed, before that chunk's card was committed.
C11_FailureNeverAborts == ~(Aborted /\ GenerationFailedInChunk)

\* the scripts are inside or past their loop
Scheduling == pc \notin {"start", "error"}

FirstStart == all_observations[1].start_ts
LastEnd == all_observations[Len(all_observations)].end_ts

\* the i-th smallest element of a set of indices
NthIndex(idx, i) == CHOOSE k \in idx : Cardinality({j \in idx : j < k}) = i - 1

\* sub holds the elements of seq at the indices idx, in the order of seq
IsSelection(sub, seq, idx) ==
    /\ Len(sub) = Cardinality(idx)
    /\ \A i \in 1..Len(sub) : sub[i] = seq[NthIndex(idx, i)]

\* the indices of the observations that intersect the window starting at c
WindowIndices(c) ==
    {i \in 1..Len(all_observations) :
        /\ all_observations[i].start_ts < c + chunk_duration
        /\ all_observations[i].end_ts > c}

AtEmptyWindow ==
    /\ pc = "loop"
    /\ chunk_start < end_time
    /\ WindowIndices(chunk_start) = {}

\* the positions visited so far that had at least one intersecting observation
NonEmptyVisits ==
    Cardinality({i \in 1..Len(visited) : Len(visited[i].chunk_observations) > 0})

\* C13: no card is produced for a cursor position whose window intersects
\* no observation: the step issues no inference call, leaves the timeline,
\* the emitted cards and the previous card unchanged and advances the cursor
\* by one chunk length; and the number of candidate cards generated equals
\* the number of positions with at least one intersecting observation (one
\* card per such position in process_with_merging, as many emitted cards as
\* such positions in process_observations_in_chunks).
C13_NoCardForEmptyWindow ==
    /\ [][AtEmptyWindow =>
            /\ calls' = 0 /\ response' = NoResponse
            /\ cards' = cards
            /\ final_cards' = final_cards
            /\ all_cards' = all_cards
            /\ previous_card' = previous_card
            /\ chunk_start' = chunk_start + chunk_duration]_vars
    /\ [](mode = "merging" /\ pc = "consolidate" => Len(cards) = 1)
    /\ [](mode = "chunks" /\ Scheduling => Len(all_cards) = NonEmptyVisits)

\* the indices of the observations inside the context window ending at c
ContextIndices(c) ==
    {i \in 1..Len(all_observations) :
        /\ all_observations[i].start_ts >= c - context_duration
        /\ all_observations[i].end_ts <= c}

\* process_observations_in_chunks has just generated the cards of a chunk
ChunkGenerated == mode = "chunks" /\ Scheduling /\ calls = 1

\* C14: in process_observations_in_chunks the context passed to the
\* generator at cursor position c is exactly (a) the observations with
\* start_ts >= c - W and end_ts <= c and (b) every card emitted for earlier
\* chunks, in emission order; no observation selected for the current
\* chunk is also in the context.
C14_ContextIsExact ==
    (mode = "chunks" /\ Scheduling) =>
        /\ \A i \in 1..Len(visited) :
            Len(visited[i].chunk_observations) > 0 =>
                /\ IsSelection(visited[i].context_observations, all_observations,
                               ContextIndices(visited[i].chunk_start))
                /\ ContextIndices(visited[i].chunk_start)
                        \cap WindowIndices(visited[i].chunk_start) = {}
        /\ ChunkGenerated => context_cards \o cards = all_cards

\* C15: while chunks are processed the observation stream is never changed
\* (no observation added, removed, reordered or modified by scheduling,
\* context assembly, generation or consolidation), and the cards emitted
\* earlier, which are passed as context, are not modified by the generator:
\* they stay, in order, at the head of the emitted cards.
C15_StreamReadOnly ==
    [][Scheduling =>
        /\ all_observations' = all_observations
        /\ Len(all_cards') >= Len(all_cards)
        /\ SubSeq(all_cards', 1, Len(all_cards)) = all_cards
        /\ \A i \in 1..Len(context_cards') :
            \E j \in 1..Len(all_cards) : context_cards'[i] = all_cards[j]]_vars

\* a second chunk was generated with context observations and context cards
C15_Witness ==
    /\ ChunkGenerated
    /\ Len(visited) = 2
    /\ Len(visited[2].context_observations) > 0
    /\ Len(context_cards) > 0
    /\ Len(all_cards) > Len(context_cards)

\* the elements of seq at the indices idx, in the order of seq
Selection(seq, idx) == [i \in 1..Cardinality(idx) |-> seq[NthIndex(idx, i)]]

RECURSIVE ScheduleFrom(_)
\* the visits from cursor position c on, computed from the observation list
\* alone: no response, card or decision enters
ScheduleFrom(c) ==
    IF ~(c < LastEnd) THEN <<>>
    ELSE <<[chunk_start |-> c,
            chunk_observations |-> Selection(all_observations, WindowIndices(c)),
            context_observations |->
                IF mode = "chunks" /\ WindowIndices(c) # {}
                THEN Selection(all_observations, ContextIndices(c)) ELSE <<>>]>>
         \o ScheduleFrom(c + chunk_duration)

InConsolidation == mode = "merging" /\ pc \in {"consolidate", "decided", "fused"}

\* C17: consolidation decisions are made in chronological order against the
\* true previous card: while the card of a chunk is being consolidated it is
\* the card of the latest visit, every earlier chunk with observations has
\* its card committed (a previous card exists exactly when there was one),
\* and wherever previous_card is set it equals the last card of final_cards,
\* so a fused card always replaces the last card and is never appended.
C17_PreviousIsLast ==
    mode = "merging" =>
        /\ previous_card # <<>> =>
            /\ Len(final_cards) > 0
            /\ final_cards[Len(final_cards)] = previous_card[1]
        /\ InConsolidation =>
            /\ visited[Len(visited)].chunk_start = chunk_start
            /\ visited[Len(visited)].chunk_observations = chunk_observations
            /\ new_card = <<cards[1]>>
            /\ (previous_card # <<>>) <=> (NonEmptyVisits >= 2)
            /\ (previous_card = <<>>) <=> (final_cards = <<>>)

\* the merge decision for the second card was True and the fusion has
\* returned; the fused card is about to replace the last card
C17_Witness ==
    /\ mode = "merging" /\ pc = "fused"
    /\ NonEmptyVisits = 2
    /\ Truthy(decision)
    /\ merged_card # <<>>
    /\ merged_card # previous_card

----------------------------------------------------------------------------
(* Segment Merger properties *)

\* _merge_frame_descriptions has returned
Merged == mode = "video" /\ pc = "merged"

\* the list _merge_frame_descriptions returned
ReturnedObservations == video_observations[1]

\* C18: the Segment Merger never raises on an inference failure, an
\* unparsable response or a malformed segment, and always returns a list
\* with at least one Observation.
C18_AtLeastOneObservation ==
    Merged =>
        /\ video_observations # <<>>
        /\ Len(ReturnedObservations) >= 1

\* the number of distinct captions among the frame descriptions
DistinctCaptions ==
    Cardinality({frame_descriptions[i][2] : i \in 1..Len(frame_descriptions)})

\* C19: for a batch with at least 2 distinct captions, duration D and start
\* T0, the list returned (success path or fallback path) is chronologically
\* ordered, pairwise non-overlapping and covers the batch span exactly: the
\* first start_ts is T0, the last end_ts is T0 + D, and consecutive
\* observations leave no gap.
C19_CoversBatch ==
    (Merged /\ DistinctCaptions >= 2 /\ Len(ReturnedObservations) >= 1) =>
        LET obs == ReturnedObservations
        IN  /\ obs[1].start_ts = IntOf(batch_start_time)
            /\ obs[Len(obs)].end_ts = IntOf(batch_start_time + video_duration)
            /\ \A i \in 1..(Len(obs) - 1) :
                /\ obs[i].start_ts <= obs[i + 1].start_ts
                /\ obs[i].end_ts = obs[i + 1].start_ts

\* C20: every Observation the Segment Merger produces, on the success path
\* and on the fallback path, has start_ts < end_ts.
C20_StartBeforeEnd ==
    Merged =>
        \A i \in 1..Len(ReturnedObservations) :
            ReturnedObservations[i].start_ts < ReturnedObservations[i].end_ts

\* the segments the merge response parsed into
ParsedSegments == _parse_json_from_response(response.text, "list")

\* the merge call returned a text that parses into a list of segments
SegmentsParsed == Merged /\ ~response.fail /\ ~ParsedSegments.raised

\* the positions of the colons of a text
Colons(t) == {i \in 1..Len(t) : CharAt(t, i) = ":"}

\* a timestamp of the form MM:SS or HH:MM:SS: a str of two or three
\* non-empty fields of decimal digits separated by colons
WellFormedTimestamp(v) ==
    /\ IsStr(v)
    /\ Cardinality(Colons(v.s)) \in {1, 2}
    /\ \A i \in 1..Len(v.s) : CharAt(v.s, i) \in DigitSet \cup {":"}
    /\ 1 \notin Colons(v.s) /\ Len(v.s) \notin Colons(v.s)
    /\ \A i \in Colons(v.s) : i + 1 \notin Colons(v.s)

\* the segment has a startTimestamp or endTimestamp that is malformed
HasMalformedTimestamp(segment) ==
    /\ segment.isdict
    /\ \E k \in {"startTimestamp", "endTimestamp"} :
        k \in DOMAIN segment.d /\ ~WellFormedTimestamp(segment.d[k])

\* C21: if any segment of the merge response has a startTimestamp or
\* endTimestamp that is not of the form MM:SS or HH:MM:SS with integer
\* fields, the whole batch falls back: exactly one Observation is returned,
\* from int(T0) to int(T0 + D), with the sentinel description and the error
\* in its metadata, and no Observation of an earlier well-formed segment.
C21_MalformedTimestampFallsBack ==
    (SegmentsParsed
        /\ \E i \in 1..Len(ParsedSegments.l) : HasMalformedTimestamp(ParsedSegments.l[i]))
    => /\ Len(ReturnedObservations) = 1
       /\ ReturnedObservations[1].start_ts = IntOf(batch_start_time)
       /\ ReturnedObservations[1].end_ts = IntOf(batch_start_time + video_duration)
       /\ ReturnedObservations[1].observation = Str("Failed to merge frame descriptions")
       /\ ReturnedObservations[1].metadata = "error"
       /\ llm_calls[Len(llm_calls)].error

\* the response held a well-formed segment followed by a segment whose
\* startTimestamp is "abc"
C21_Witness ==
    /\ SegmentsParsed
    /\ Len(ParsedSegments.l) = 2
    /\ ~HasMalformedTimestamp(ParsedSegments.l[1])
    /\ ParsedSegments.l[2].isdict
    /\ ParsedSegments.l[2].d["startTimestamp"] = Str("abc")
    /\ Len(ReturnedObservations) = 1

\* the value of a field of decimal digits read from position i to j
FieldValue(t, i, j) ==
    LET RECURSIVE Val(_)
        Val(k) == IF k < i THEN 0 ELSE DigitVal(CharAt(t, k)) + 10 * Val(k - 1)
    IN  Val(j)

\* seconds(timestamp) of a well-formed timestamp: the last field counts
\* seconds, the one before it minutes, the one before that hours
seconds(t) ==
    LET cs == Colons(t)
        c1 == CHOOSE i \in cs : \A j \in cs : i <= j
        c2 == CHOOSE i \in cs : \A j \in cs : i >= j
    IN  IF Cardinality(cs) = 1
        THEN 60 * FieldValue(t, 1, c1 - 1) + FieldValue(t, c1 + 1, Len(t))
        ELSE 3600 * FieldValue(t, 1, c1 - 1) + 60 * FieldValue(t, c1 + 1, c2 - 1)
             + FieldValue(t, c2 + 1, Len(t))

\* every segment of the response is an object with a description and two
\* well-formed timestamps
AllSegmentsWellFormed ==
    /\ SegmentsParsed
    /\ Len(ParsedSegments.l) >= 1
    /\ \A i \in 1..Len(ParsedSegments.l) :
        /\ ParsedSegments.l[i].isdict
        /\ SegmentKeys \subseteq DOMAIN ParsedSegments.l[i].d
        /\ ~HasMalformedTimestamp(ParsedSegments.l[i])

\* C22: when the merge response parses into k >= 1 segments with well-formed
\* timestamps, exactly k Observations are returned in response order, the
\* i-th from int(T0 + seconds(startTimestamp_i)) to
\* int(T0 + seconds(endTimestamp_i)) with the segment's description; a count
\* outside 2..5 is accepted.
C22_OneObservationPerSegment ==
    AllSegmentsWellFormed
    => /\ Len(ReturnedObservations) = Len(ParsedSegments.l)
       /\ \A i \in 1..Len(ParsedSegments.l) :
            LET segment == ParsedSegments.l[i].d
            IN  /\ ReturnedObservations[i].start_ts
                     = IntOf(batch_start_time
                             + HalvesPerSecond * seconds(segment["startTimestamp"].s))
                /\ ReturnedObservations[i].end_ts
                     = IntOf(batch_start_time
                             + HalvesPerSecond * seconds(segment["endTimestamp"].s))
                /\ ReturnedObservations[i].observation = segment["description"]
                /\ ReturnedObservations[i].metadata = "model"

\* a response of six well-formed segments was merged on a batch that starts
\* between two whole seconds
C22_Witness ==
    /\ AllSegmentsWellFormed
    /\ Len(ParsedSegments.l) = 6
    /\ Len(ReturnedObservations) = 6
    /\ batch_start_time % HalvesPerSecond = 1
    /\ ReturnedObservations[2].end_ts > ReturnedObservations[2].start_ts

\* ---------------------------------------------------------------------
\* Categories, call counts and decisions (C23-C30)
\* ---------------------------------------------------------------------

\* the five categories of the card format
Categories ==
    {Str("Work"), Str("Research"), Str("Communication"), Str("Entertainment"),
     Str("Administrative")}

\* the cards that are in a timeline: the committed cards of either script,
\* the cards just generated and the fused card
TimelineCards ==
    {final_cards[i] : i \in 1..Len(final_cards)}
    \cup {all_cards[i] : i \in 1..Len(all_cards)}
    \cup {cards[i] : i \in 1..Len(cards)}
    \cup {merged_card[i] : i \in 1..Len(merged_card)}

\* C23: every card that is ever in the timeline, generated by either
\* generator, by the fallback or by fusion, has a category that is one of
\* Work, Research, Communication, Entertainment, Administrative, whatever
\* the responses contain.
C23_CategoryInFixedSet == \A card \in TimelineCards : card.category \in Categories

\* the step evaluates should_merge_cards (line 195)
DecisionStep == pc = "consolidate" /\ pc' \in {"decided", "crashed"}

\* the step invokes merge_two_cards (line 197)
FusionStep == pc # "fused" /\ pc' = "fused"

\* the cards committed before the last one stay as they are
EarlierCardsKept ==
    \A i \in 1..(Len(final_cards) - 1) :
        i <= Len(final_cards') /\ final_cards'[i] = final_cards[i]

\* C24: per newly generated card the Consolidation Engine evaluates at most
\* one merge decision (none for the first card) and invokes fusion at most
\* once and only after that decision was True; it issues at most two
\* inference calls per card after the generation call, and the cards
\* committed before the last one are never compared again.
C24_OneDecisionOneFusion ==
    [][ /\ DecisionStep => previous_card # <<>> /\ calls = 1
        /\ FusionStep => pc = "decided" /\ calls <= 2 /\ decision = JTrue
        /\ calls' <= 3
        /\ EarlierCardsKept ]_vars

\* the parts of C24 that count steps and calls
CallDiscipline ==
    [][ /\ DecisionStep => previous_card # <<>> /\ calls = 1
        /\ FusionStep => pc = "decided" /\ calls <= 2 /\ Truthy(decision)
        /\ calls' <= 3
        /\ EarlierCardsKept ]_vars

\* the 'combine' field of the object the decision response parsed into
CombineField ==
    LET result == _parse_json_from_response(response.text, "dict")
    IN  IF response.fail \/ result.raised \/ "combine" \notin DOMAIN result.d
        THEN <<>>
        ELSE <<result.d["combine"]>>

\* C29: should_merge_cards yields a merge only when the 'combine' field of
\* the parsed response is the boolean true: a missing field, the boolean
\* false or a non-boolean value never causes the two cards to be fused.
C29_MergeOnlyOnBooleanTrue ==
    [][ (pc = "decided" /\ FusionStep) => CombineField = <<JTrue>> ]_vars

\* the observation stream of the script was empty
EmptyStream == mode \in {"merging", "chunks"} /\ Len(all_observations) = 0

\* C27: given an empty observation stream, process_with_merging and
\* process_observations_in_chunks end with a single terminal error before
\* any inference call is issued and without emitting any card.
C27_EmptyStreamIsTerminalError ==
    /\ [](EmptyStream /\ pc # "start"
            => /\ pc = "error"
               /\ visited = <<>> /\ calls = 0 /\ response = NoResponse
               /\ cards = <<>> /\ final_cards = <<>> /\ all_cards = <<>>)
    /\ [][pc # "error"]_vars

\* the IndexError of an empty stream was raised
C27_Witness == EmptyStream /\ pc = "error"

\* C30: at the end of process_with_merging the number of final cards equals
\* the number of candidate cards generated (one per non-empty window) minus the number of merge
\* decisions that were True (the "Merge decision: True" lines).
C30_FinalCountArithmetic ==
    (mode = "merging" /\ pc = "done")
    => Len(final_cards) = NonEmptyVisits - merge_yes

\* ---------------------------------------------------------------------
\* Response parser properties (C28)
\* ---------------------------------------------------------------------

\* the parser has run on the response
Parsed == mode = "parse" /\ pc = "parsed"

\* a run of prose: no bracket, no brace
IsProse(toks) == \A i \in 1..Len(toks) : toks[i] = "p"

\* the spans of the response that are a JSON value of the expected shape
ExpectedSpans ==
    {span \in (1..Len(response.text)) \X (1..Len(response.text)) :
        /\ span[1] <= span[2]
        /\ JsonLoads(SubSeq(response.text, span[1], span[2])).ok
        /\ JsonLoads(SubSeq(response.text, span[1], span[2])).kind = parse_type}

\* the spans of ExpectedSpans with nothing but prose before and after
ProseWrappedSpans ==
    {span \in ExpectedSpans :
        /\ IsProse(SubSeq(response.text, 1, span[1] - 1))
        /\ IsProse(SubSeq(response.text, span[2] + 1, Len(response.text)))}

\* a value of the expected shape between prose is returned
ReturnsWrappedValue ==
    \A span \in ProseWrappedSpans :
        parse_result[1]
            = ParseValue(JsonLoads(SubSeq(response.text, span[1], span[2])))

\* the one-element list holding the object found from the first opening to
\* the last closing brace of a response that is no JSON itself
WrappedObject ==
    LET first == Find(response.text, "{")
        last == RFind(response.text, "}")
        object == JsonLoads(SubSeq(response.text, first, last))
    IN  /\ parse_type = "list"
        /\ ~JsonLoads(response.text).ok
        /\ first # 0 /\ last # 0
        /\ object.ok /\ object.kind = "dict"
        /\ parse_result[1] = ParseValue(JsonList(<<ElemDict(object.d)>>))

\* C28 (as stated): a valid JSON value of the expected shape preceded and/or
\* followed by prose without brackets or braces is returned; if no JSON
\* value of the expected shape can be recovered, the parser raises instead
\* of returning a value.
C28_ParserAsStated ==
    Parsed => /\ ReturnsWrappedValue
              /\ ExpectedSpans = {} => parse_result[1].raised

\* C28 (amended): a valid JSON value of the expected shape preceded and/or
\* followed by prose without brackets or braces is returned; if no JSON
\* value of the expected shape can be recovered, the parser raises, except
\* that for an expected list a response that is no JSON itself and holds a
\* JSON object from its first opening to its last closing brace yields the
\* one-element list holding that object.
C28_ParserToleratesProse ==
    Parsed => /\ ReturnsWrappedValue
              /\ ExpectedSpans = {} => parse_result[1].raised \/ WrappedObject

\* a list of two objects between two runs of prose was returned
C28_Witness ==
    /\ Parsed
    /\ parse_type = "list"
    /\ ProseWrappedSpans # {}
    /\ response.text[1] = "p" /\ response.text[Len(response.text)] = "p"
    /\ ~parse_result[1].raised
    /\ Len(parse_result[1].l) = 2

\* ---------------------------------------------------------------------
\* Video pipeline properties (C25, C26)
\* ---------------------------------------------------------------------

\* C25: the call log is cleared per unit of work: at the moment
\* process_single_video writes the call log for a video, the log holds only
\* records of calls made while processing that video, also when an earlier
\* video of the same process_video_list run failed part-way through.
C25_LogHoldsOnlyThisVideo ==
    llm_calls_file # <<>>
    => \A i \in 1..Len(llm_calls_file[1].calls) :
            llm_calls_file[1].calls[i].during = llm_calls_file[1].video

\* process_single_video is about to generate, or has generated, the cards
AtGeneration == mode = "pipeline" /\ pc \in {"generate", "write"}

\* the cached file exists and loads: JSON text whose entries carry the
\* fields of an Observation
Usable(file) ==
    /\ file # <<>>
    /\ file[1].valid
    /\ \A i \in 1..Len(file[1].entries) :
        /\ {"start_ts", "end_ts", "observation"} \subseteq DOMAIN file[1].entries[i]
        /\ DOMAIN file[1].entries[i]
                \subseteq {"start_ts", "end_ts", "observation", "metadata"}

\* the observations are those of the file, entry by entry
SameAsFile(observations, file) ==
    /\ Len(observations) = Len(file[1].entries)
    /\ \A i \in 1..Len(observations) :
        /\ observations[i].start_ts = file[1].entries[i]["start_ts"]
        /\ observations[i].end_ts = file[1].entries[i]["end_ts"]
        /\ observations[i].observation = file[1].entries[i]["observation"]

\* the stages of the current video that compute observations
ComputingStages == {"duration", "extract", "describe", "merge", "cache_write"}

\* the records of llm_calls appended during the current video
CallsOfThisVideo ==
    Cardinality({i \in 1..Len(llm_calls) : llm_calls[i].during = video_index})

\* C26: when a cached observation list exists and loads, process_single_video
\* extracts no frame and issues no description and no merge call, and passes
\* exactly the cached observations to card generation, as it does with a
\* computed list; when the cache is absent or fails to load, the observations
\* are computed and written to the cache before card generation.
C26_CacheReplacesComputation ==
    /\ (mode = "pipeline" /\ pc \in {"duration", "extract", "merge"})
        => ~Usable(cached_obs_file[video_path])
    /\ AtGeneration
        => /\ IF stages[1] = "cache_hit"
              THEN /\ \A i \in 1..Len(stages) : stages[i] \notin ComputingStages
                   /\ Usable(cached_obs_file[video_path])
                   /\ SameAsFile(video_observations[1], cached_obs_file[video_path])
                   /\ CallsOfThisVideo = (IF pc = "write" THEN 1 ELSE 0)
              ELSE /\ \E k \in 1..(Len(stages) - 1) :
                        /\ stages[k] = "merge" /\ stages[k + 1] = "cache_write"
                        /\ \A j \in 1..Len(stages) : stages[j] = "generate" => j > k + 1
                   /\ Usable(cached_obs_file[video_path])
                   /\ SameAsFile(video_observations[1], cached_obs_file[video_path])
                   /\ LoadCached(cached_obs_file[video_path]) = video_observations
           /\ pc = "write"
               => cards = _generate_activity_cards(video_observations[1], response).cards

\* the second video of the list was served from the cache the first one
\* wrote, and its cards were generated
C26_Witness ==
    /\ mode = "pipeline" /\ pc = "write"
    /\ video_index = 2
    /\ stages = <<"cache_hit", "generate">>
    /\ Len(video_observations[1]) = 1
    /\ video_observations[1][1].metadata = "model"
    /\ Len(cards) = 1

\* ---------------------------------------------------------------------
\* Video list, chained fusion, coverage, termination, round trip (C31-C35)
\* ---------------------------------------------------------------------

\* the step ends the processing of a video, by return or by exception
VideoEnds == video_index' = video_index + 1

\* the step enters process_single_video for the path at video_index
VideoBegins == pc = "video" /\ pc' \notin {"video", "done"}

\* the position moves by one, only when a video ends and the loop goes on;
\* entering a video keeps it; the run ends past the last path only
InListOrder ==
    /\ video_index' \in {video_index, video_index + 1}
    /\ VideoEnds => (video_index <= Len(video_paths) /\ pc' = "video"
                        /\ video_paths' = video_paths)
    /\ VideoBegins => (video_index' = video_index)
    /\ (pc' = "done") => (video_index' = Len(video_paths) + 1)

\* C31: process_video_list attempts every listed video exactly once, in list
\* order: an exception raised while processing one video is caught and does
\* not stop the run, and every later video of the list is still processed.
C31_EveryVideoAttemptedOnce ==
    /\ [][InListOrder]_vars
    /\ []((mode = "pipeline" /\ pc # "done") => ENABLED PipelineNext)
    /\ []((mode = "pipeline" /\ pc = "video" /\ video_index <= Len(video_paths))
            => ENABLED LoadCache)

\* the first video raised after a call was logged, the second video was
\* processed to its end and the run is over
C31_Witness ==
    /\ mode = "pipeline" /\ pc = "done"
    /\ Len(video_paths) = 2
    /\ llm_calls_file # <<>>
    /\ llm_calls_file[1].video = 2
    /\ llm_calls_file[1].calls[1].during = 1


\* the number of consecutive windows of the longest stream below
MaxChain == 3

\* an observation filling the i-th window after BaseTs
ChainWindow(i) ==
    [start_ts |-> BaseTs + (i - 1) * chunk_duration,
     end_ts |-> BaseTs + i * chunk_duration, observation |-> "vscode"]

\* streams with one observation in each of n consecutive windows, and one
\* with nothing between the first and the last window
ChainStreams ==
    {[i \in 1..n |-> ChainWindow(i)] : n \in 0..MaxChain}
        \cup {<<ChainWindow(1), ChainWindow(MaxChain)>>}

\* the scripts started on a stream that spans several windows
ChainInit ==
    /\ mode \in {"merging", "chunks"}
    /\ pc = "start"
    /\ all_observations \in ChainStreams
    /\ end_time = 0
    /\ chunk_start = 0
    /\ chunk_observations = <<>>
    /\ context_observations = <<>>
    /\ context_cards = <<>>
    /\ cards = <<>>
    /\ new_card = <<>>
    /\ previous_card = <<>>
    /\ final_cards = <<>>
    /\ all_cards = <<>>
    /\ decision = JFalse
    /\ merged_card = <<>>
    /\ response = NoResponse
    /\ calls = 0
    /\ visited = <<>>
    /\ frame_descriptions = <<>>
    /\ batch_start_time = 0
    /\ video_duration = 0
    /\ video_observations = <<>>
    /\ llm_calls = <<>>
    /\ merge_yes = 0
    /\ chain = NoChain
    /\ PipelineIdle

ChainSpec == ChainInit /\ [][Next]_vars

\* C32: after m >= 1 consecutive fusions onto a committed card C0 the
\* timeline is as long as when C0 was appended and its last card has the
\* start and category of C0 and the end of the card fused last
C32_ChainKeepsEarliestBounds ==
    (mode = "merging" /\ chain.m >= 1) =>
        /\ Len(final_cards) = chain.len
        /\ final_cards[Len(final_cards)].start_time = chain.start_time
        /\ final_cards[Len(final_cards)].end_time = chain.end_time
        /\ final_cards[Len(final_cards)].category = chain.category
        /\ previous_card = <<final_cards[Len(final_cards)]>>

\* a card fused twice onto the first card, with three windows behind it
C32_Witness ==
    /\ mode = "merging" /\ pc = "done"
    /\ chain.m = 2 /\ chain.len = 1
    /\ Len(visited) = 3
    /\ final_cards[1].start_time = Str(FormatTime(BaseTs))
    /\ final_cards[1].end_time = Str(FormatTime(BaseTs + 3 * chunk_duration))


\* the observation is in the chunk of some loop iteration
SelectedSomewhere(o) ==
    \E v \in 1..Len(visited) :
        \E k \in 1..Len(visited[v].chunk_observations) :
            visited[v].chunk_observations[k] = o

\* C33: when the loop has ended, every observation of the stream with
\* start_ts < end_ts was selected into the chunk of a visited cursor position
C33_EveryProperObservationSelected ==
    (mode \in {"merging", "chunks"} /\ pc = "done") =>
        \A i \in 1..Len(all_observations) :
            (all_observations[i].start_ts < all_observations[i].end_ts)
                => SelectedSomewhere(all_observations[i])


\* ceil((last.end_ts - first.start_ts) / L), zero for an empty time range
Positions ==
    IF LastEnd <= FirstStart THEN 0
    ELSE (LastEnd - FirstStart + chunk_duration - 1) \div chunk_duration

\* the while loop was left: its condition failed, or an exception that no
\* handler catches went through it
LoopEnded == mode \in {"merging", "chunks"} /\ pc \in {"done", "crashed"}

\* C34: on a non-empty stream the scheduling loop ends after exactly
\* ceil((last.end_ts - first.start_ts) / L) cursor positions were visited
\* (none when last.end_ts <= first.start_ts), whatever the inference calls
\* returned
C34_EndsAfterAllPositions ==
    (LoopEnded /\ Len(all_observations) > 0) => Len(visited) = Positions


\* the half seconds each duration below goes beyond its base
MaxSpan == 12

\* whole seconds just below a change of the text: the first minute, the
\* first hour (MM:SS becomes HH:MM:SS), the tenth and the hundredth hour
RoundTripBases == {0, 57, 3597, 35997, 359997}

\* the durations formatted: floats, in half seconds
RoundTripDurations ==
    {HalvesPerSecond * b + h : b \in RoundTripBases, h \in 0..MaxSpan}

\* the formatter and the parser of timestamps on their own
RoundTripInit ==
    /\ mode = "roundtrip"
    /\ pc = "format"
    /\ response = NoResponse
    /\ parse_type = ""
    /\ parse_result = <<>>
    /\ video_paths = <<>>
    /\ video_index = 0
    /\ cached_obs_file = <<>>
    /\ llm_calls_file = <<>>
    /\ stages = <<>>
    /\ formatted = <<>>
    /\ reparsed = <<>>
    /\ frame_descriptions = <<>>
    /\ batch_start_time = 0
    /\ video_duration \in RoundTripDurations
    /\ video_observations = <<>>
    /\ llm_calls = <<>>
    /\ all_observations = <<>>
    /\ end_time = 0
    /\ chunk_start = 0
    /\ chunk_observations = <<>>
    /\ context_observations = <<>>
    /\ context_cards = <<>>
    /\ cards = <<>>
    /\ new_card = <<>>
    /\ previous_card = <<>>
    /\ final_cards = <<>>
    /\ all_cards = <<>>
    /\ decision = JFalse
    /\ merged_card = <<>>
    /\ calls = 0
    /\ visited = <<>>
    /\ merge_yes = 0
    /\ chain = NoChain

\* what the two functions do not touch
RoundTripUnchanged ==
    /\ UNCHANGED <<all_observations, end_time, chunk_start, chunk_observations,
                   context_observations, context_cards, cards, new_card, previous_card,
                   final_cards, all_cards, decision, merged_card, calls, visited,
                   merge_yes, chain, response>>
    /\ UNCHANGED <<frame_descriptions, batch_start_time, video_duration,
                   video_observations, llm_calls>>
    /\ UNCHANGED <<parse_type, parse_result, video_paths, video_index, cached_obs_file,
                   llm_calls_file, stages>>

\* lines 687-696: _format_duration(seconds)
FormatDuration ==
    /\ mode = "roundtrip" /\ pc = "format"
    /\ formatted' = <<_format_duration(video_duration)>>
    /\ pc' = "formatted"
    /\ UNCHANGED <<mode, reparsed>>
    /\ RoundTripUnchanged

\* lines 675-685: _parse_timestamp(timestamp) on the text returned
ParseTimestamp ==
    /\ mode = "roundtrip" /\ pc = "formatted"
    /\ reparsed' = <<_parse_timestamp(Str(formatted[1]))>>
    /\ pc' = "reparsed"
    /\ UNCHANGED <<mode, formatted>>
    /\ RoundTripUnchanged

RoundTripNext == FormatDuration \/ ParseTimestamp

RoundTripSpec == RoundTripInit /\ [][RoundTripNext]_vars

\* C35: _parse_timestamp(_format_duration(s)) = floor(s) for s >= 0 in whole
\* or fractional seconds, in the MM:SS form below one hour and in the
\* HH:MM:SS form from one hour on
C35_TimestampRoundTrip ==
    (mode = "roundtrip" /\ pc = "reparsed") =>
        /\ ~reparsed[1].raised
        /\ reparsed[1].seconds = IntOf(video_duration)
        /\ Len(split(formatted[1])) = (IF IntOf(video_duration) < 3600 THEN 2 ELSE 3)

\* a duration of a hundred hours and a fraction went through both functions
C35_Witness ==
    /\ mode = "roundtrip" /\ pc = "reparsed"
    /\ video_duration = HalvesPerSecond * 360000 + 1
    /\ formatted = <<"100:00:00">>
    /\ reparsed[1].seconds = 360000

====
